---- MODULE Spec2Model ----
(***************************************************************************)
(* Deployment of a Cognite function: delete the old function and its code  *)
(* file, upload the zipped folder, create the function and poll until it   *)
(* is deployed, the whole sequence wrapped in a bounded retry.             *)
(*                                                                         *)
(* The repository holds two snapshots of upload_and_create_function:       *)
(*   "legacy"  src/src/function.py      (retry tries=5, own try/except)    *)
(*   "oidc"    src/src/orchestrator.py  (utils.retry tries=2)              *)
(* Both are modelled; the variable pipeline says which one is running.     *)
(***************************************************************************)
EXTENDS Integers, Sequences, FiniteSets, TLC

VARIABLES
    pipeline,   \* which snapshot of upload_and_create_function runs
    mode,       \* "deploy": upload_and_create_function; "remove": remove_function_with_file alone
    cfg,        \* the FunctionConfig fields the sequence reads
    remote,     \* state of the remote service (function, code file, schedules, data set)
    faulty,     \* remote calls the service rejects on every call
    flaky,      \* TRUE: any remote call may also fail on a single call
    pc,         \* position in the code
    tries,      \* _retry: tries left
    delay,      \* _retry: seconds the next retry sleep lasts
    attempt,    \* number of attempts of the wrapped function started
    sleeps,     \* _retry: the sleeps between attempts so far, in order
    log,        \* calls and sleeps of the current attempt, in order
    function,   \* local Function object (status, error, id) or NoFunction
    file_meta,  \* delete_function_file: the retrieved FileMetadata ("none", "plain", "governed")
    file_id,    \* id returned by zip_and_upload_folder, 0 when None
    ds,         \* zip_and_upload_folder: the DataSet in use
    dsCache,    \* utils.retrieve_dataset: lru_cache content
    t,          \* await_function_deployment: time.time() - t0
    exc,        \* exception in flight, or NoExc
    outcome,    \* what the call returned or raised, once pc = "done"
    round,      \* mode "remove": 1 or 2, the run of remove_function_with_file in progress
    after1,     \* mode "remove": remote state and outcome after the first run
    creds,      \* access: the credentials under verification (name, project, data set id)
    iam,        \* access: what the service answers to token inspection and group listing
    capabs,     \* access: the capabilities parsed from the listed groups
    missing,    \* access: the list of missing capabilities, in order
    senv,       \* schedules: function ids, schedule credentials and the schedule file on disk
    schedule_file,  \* schedules: values["schedule_file"], "none" when None
    schedules,  \* schedules: the parsed schedules, in order
    warnings,   \* schedules: the warnings logged, in order
    envvars,    \* configuration: the parameters as the environment passes them
    fn_config,  \* configuration: the validated FunctionConfig, or NoConfig
    fn_params,  \* configuration: what create_fn_params returned, or NoParams
    remove_only,    \* main: config.remove_only
    stdout,     \* main: the lines printed, in order
    cwd,        \* temporary_chdir: os.getcwd()
    old_path,   \* temporary_chdir: the directory saved on entry, "unset" outside the block
    post_deploy_cleanup,    \* run_cleanup: fn_config.post_deploy_cleanup
    runs        \* two runs for one external id: position, locals and result of each

vars == <<pipeline, mode, cfg, remote, faulty, flaky, pc, tries, delay, attempt, sleeps, log,
          function, file_meta, file_id, ds, dsCache, t, exc, outcome, round, after1,
          creds, iam, capabs, missing, senv, schedule_file, schedules, warnings,
          envvars, fn_config, fn_params, remove_only, stdout, cwd, old_path,
          post_deploy_cleanup, runs>>

verifyVars == <<creds, iam, capabs, missing>>
schedVars == <<senv, schedule_file, schedules, warnings>>
configVars == <<envvars, fn_config, fn_params>>

\* The variables of the components modelled apart from the deployment sequence,
\* the capability verifier and the schedules.
mainVars == <<remove_only, stdout>>
chdirVars == <<cwd, old_path>>
componentVars == <<configVars, mainVars, chdirVars, post_deploy_cleanup, runs>>

\* What a run of the deployment sequence never assigns.
envVars == <<pipeline, mode, cfg, faulty, flaky, verifyVars, schedVars, componentVars>>
retryVars == <<tries, delay, attempt, sleeps>>
harnessVars == <<round, after1>>

(***************************************************************************)
(* Bounds of the model                                                     *)
(***************************************************************************)
MaxDeployTimeout == 12
MaxSchedules == 1
MaxCapabs == 3
MaxEntries == 2
MaxNameLen == 4
MaxMetadata == 2
MaxTries == 3
MaxDelayCap == 6

(***************************************************************************)
(* Program constants                                                       *)
(***************************************************************************)
DEPLOY_WAIT_TIME_SEC == 1200
POLL_INTERVAL_SEC == 5
SETTLE_SEC == 3
LEGACY_TRIES == 5
LEGACY_DELAY == 2
LEGACY_BACKOFF == 1
LEGACY_JITTER == 2
ORCH_TRIES == 2
ORCH_DELAY == 5
ORCH_BACKOFF == 2
ORCH_JITTER == 0

DupPhrase == "Function externalId duplicated"

(***************************************************************************)
(* Texts are sequences of pieces; "s in text" is the infix test.           *)
(***************************************************************************)
IsInfix(s, text) ==
    \E i \in 0..(Len(text) - Len(s)) : SubSeq(text, i + 1, i + Len(s)) = s

\* Messages a CogniteAPIError of the remote service may carry.
ApiMessages ==
    { <<"Forbidden">>,
      <<DupPhrase>>,
      <<"Conflict: ", DupPhrase, " (fn)">> }

\* Errors the remote service may attach to a Failed function.
RemoteErrors ==
    { [message |-> <<"boom">>, trace |-> <<"t">>],
      [message |-> <<"out of", " memory">>, trace |-> <<"line 1", "line 2">>] }

NoError == [message |-> <<>>, trace |-> <<>>]

(***************************************************************************)
(* Exceptions                                                              *)
(***************************************************************************)
NoExc == [type |-> "none", msg |-> <<>>, site |-> "none", origin |-> "none", attempt |-> 0]

\* An exception object: its class, its text, the place that constructed it and the
\* attempt it was constructed in (site and attempt identify the object). origin is
\* the place of the error it stands for: its own site, or, for an exception raised
\* in an except clause, the origin of the exception caught there.
NewExc(type, msg, site) ==
    [type |-> type, msg |-> msg, site |-> site, origin |-> site, attempt |-> attempt]

\* raise type(msg) inside `except ... as e`
Reraised(type, msg, site, e) == [NewExc(type, msg, site) EXCEPT !.origin = e.origin]

ExceptionTypes ==
    {"CogniteAPIError", "ValueError", "OSError", "FunctionDeployTimeout", "FunctionDeployError"}

\* Mutant: FunctionDeployError is left out of the decorator's exceptions.
RetriedExceptions_NoDeployError ==
    IF pipeline = "legacy" THEN {"OSError", "FunctionDeployTimeout"} ELSE {}

\* Mutant: the decorator's default, exceptions=Exception.
RetriedExceptions_Default == ExceptionTypes

\* utils.retry / retry.retry: the exceptions argument of the decorator.
RetriedExceptions ==
    IF pipeline = "legacy"
    THEN {"OSError", "FunctionDeployTimeout", "FunctionDeployError"}
    ELSE {"FunctionDeployError"}

\* The arguments of _retry: those of the two decorators (function.py 201,
\* orchestrator.py 22), or, for _retry on its own, the ones the caller passes.
RetryTries ==
    IF pipeline = "legacy" THEN LEGACY_TRIES ELSE IF pipeline = "oidc" THEN ORCH_TRIES ELSE cfg.tries
RetryDelay ==
    IF pipeline = "legacy" THEN LEGACY_DELAY ELSE IF pipeline = "oidc" THEN ORCH_DELAY ELSE cfg.delay
RetryBackoff ==
    IF pipeline = "legacy" THEN LEGACY_BACKOFF ELSE IF pipeline = "oidc" THEN ORCH_BACKOFF ELSE cfg.backoff
RetryJitter ==
    IF pipeline = "legacy" THEN LEGACY_JITTER ELSE IF pipeline = "oidc" THEN ORCH_JITTER ELSE cfg.jitter

(***************************************************************************)
(* The remote service                                                      *)
(***************************************************************************)
FnStatuses == {"Queued", "Deploying", "Ready", "Failed"}
NoFunction == [status |-> "none", error |-> NoError]

\* Statuses a function may have moved to since it was last read.
Progress(s) ==
    CASE s = "Queued"    -> {"Queued", "Deploying", "Ready", "Failed"}
      [] s = "Deploying" -> {"Deploying", "Ready", "Failed"}
      [] OTHER           -> {s}

\* The function as a read finds it, given the function as last stored remotely.
Reads(fn) ==
    IF fn.status \in {"Queued", "Deploying"}
    THEN { [status |-> s, error |-> e] :
             s \in Progress(fn.status) \ {"Failed"}, e \in {NoError} }
         \cup { [status |-> "Failed", error |-> e] : e \in RemoteErrors }
    ELSE {fn}

\* Whether a call of remote operation op fails: always when the service rejects it,
\* possibly when calls may fail one by one.
Fails(op) ==
    IF op \in faulty THEN {TRUE} ELSE IF flaky THEN {TRUE, FALSE} ELSE {FALSE}

ApiError(site) ==
    { NewExc("CogniteAPIError", m, site) :
        m \in IF flaky THEN ApiMessages ELSE {<<"Forbidden">>} }

\* A transient rejection by the service (a 503-class status).
TransientError(site) ==
    IF flaky THEN { NewExc("CogniteAPIError", <<"503 Service Unavailable">>, site) } ELSE {}

RemoteOps == {"functions.retrieve", "functions.delete", "files.retrieve", "files.delete"}

Call(op, arg) == [op |-> op, arg |-> arg]

(***************************************************************************)
(* Initial states                                                          *)
(***************************************************************************)
DeployTimeouts == {0, MaxDeployTimeout \div 2, MaxDeployTimeout}

Configs ==
    { [data_set |-> d, remove_schedules |-> r, await |-> a, wait |-> w] :
        d \in BOOLEAN, r \in BOOLEAN, a \in BOOLEAN, w \in DeployTimeouts \cup {DEPLOY_WAIT_TIME_SEC} }

\* legacy: always awaits, for DEPLOY_WAIT_TIME_SEC; oidc: no schedule removal in the sequence.
ConfigOf(p) ==
    IF p = "legacy"
    THEN { c \in Configs : c.await /\ c.wait = DEPLOY_WAIT_TIME_SEC }
    ELSE { c \in Configs : ~c.remove_schedules /\ c.wait \in DeployTimeouts }

RemoteStates ==
    { [fn |-> f, file |-> fl, scheds |-> n, ds |-> d] :
        f \in {NoFunction, [status |-> "Ready", error |-> NoError]},
        fl \in {"none", "plain", "governed"},
        n \in 0..MaxSchedules,
        d \in {"none", "open", "protected"} }

\* No verification and no schedule handling in progress.
NoVerification ==
    /\ creds = [cred_name |-> "none", project |-> "none", ds_id |-> 0]
    /\ iam = [inspect |-> "none", groups_ok |-> TRUE, groups |-> <<>>]
    /\ capabs = {}
    /\ missing = <<>>

\* schedule_file is None: there is no path to look at.
NoFile == [kind |-> "unset", items |-> <<>>]

\* The fields of FunctionConfig (configs.py 203-216); the parameters from_envvars
\* reads are the properties of the schema, that is these fields.
FunctionConfigFields ==
    {"function_external_id", "function_folder", "function_secrets", "function_file",
     "function_deploy_timeout", "common_folder", "post_deploy_cleanup", "data_set_id",
     "cpu", "memory", "owner", "description", "env_vars", "runtime"}

\* The keys of the dict create_fn_params returns (configs.py 219-230).
CreateFnParamKeys ==
    {"secrets", "name", "external_id", "function_path", "owner", "cpu", "memory",
     "description", "env_vars", "runtime"}

NoConfig == [f \in FunctionConfigFields |-> <<>>]
NoParams == [k \in CreateFnParamKeys |-> <<>>]

\* No FunctionConfig is being parsed.
NoConfigHandling ==
    /\ envvars = [function_file |-> <<>>, metadata |-> <<>>,
                  function_external_id |-> <<>>, function_folder |-> <<>>]
    /\ fn_config = NoConfig
    /\ fn_params = NoParams

\* main is not running.
NoMain ==
    /\ remove_only = FALSE
    /\ stdout = <<>>

\* No temporary_chdir block is entered.
NoChdir ==
    /\ cwd = <<"github", "workspace">>
    /\ old_path = <<>>

\* run_cleanup is not called.
NoCleanup == post_deploy_cleanup = FALSE

\* No second run is going on.
NoRuns == runs = <<>>

\* The components modelled apart are idle.
ComponentsIdle ==
    /\ NoConfigHandling
    /\ NoMain
    /\ NoChdir
    /\ NoCleanup
    /\ NoRuns

NoScheduleHandling ==
    /\ senv = [xid |-> <<>>, fn_id |-> 0, credentials |-> "none", disk |-> NoFile]
    /\ schedule_file = "none"
    /\ schedules = <<>>
    /\ warnings = <<>>

InitLocals ==
    /\ log = <<>>
    /\ function = NoFunction
    /\ file_meta = "none"
    /\ file_id = 0
    /\ ds = "unset"
    /\ dsCache = "empty"
    /\ t = 0
    /\ exc = NoExc
    /\ outcome = [kind |-> "running", exc |-> NoExc, fn |-> NoFunction]

Init ==
    /\ pipeline \in {"legacy", "oidc"}
    /\ mode = "deploy"
    /\ cfg \in ConfigOf(pipeline)
    /\ remote \in RemoteStates
    /\ (cfg.data_set \/ remote.ds = "none")
    /\ ((pipeline = "legacy" /\ cfg.remove_schedules) \/ remote.scheds = 0)
    /\ faulty = {}
    /\ flaky = TRUE
    /\ pc = "retry"
    /\ tries = RetryTries
    /\ delay = RetryDelay
    /\ attempt = 0
    /\ sleeps = <<>>
    /\ round = 0
    /\ NoVerification
    /\ NoScheduleHandling
    /\ InitLocals
    /\ ComponentsIdle
    /\ after1 = [remote |-> remote, outcome |-> outcome]

(***************************************************************************)
(* Raising: where control goes when exception e leaves the current call.   *)
(* inTry: the call is inside the try block of legacy                       *)
(* upload_and_create_function (function.py 205-212). The frames the        *)
(* exception leaves are gone, and their locals with them.                  *)
(***************************************************************************)
Raise(e, inTry) ==
    /\ exc' = e
    /\ function' = NoFunction
    /\ file_meta' = "none"
    /\ file_id' = 0
    /\ ds' = "unset"
    /\ t' = 0
    /\ IF mode = "remove"
       THEN /\ pc' = "removed"
            /\ outcome' = [kind |-> "raised", exc |-> e, fn |-> NoFunction]
       ELSE /\ pc' = IF pipeline = "legacy" /\ inTry /\ e.type = "CogniteAPIError"
                     THEN "except_api"
                     ELSE "retry_except"
            /\ UNCHANGED outcome

\* The locals of the running call, left as they are by a step that does not raise.
locals == <<function, file_meta, file_id, ds, t>>

\* upload_and_create_function returns fn: _retry returns it (utils.py 99).
Return(fn) ==
    /\ pc' = "done"
    /\ outcome' = [kind |-> "returned", exc |-> NoExc, fn |-> fn]
    /\ function' = NoFunction
    /\ file_meta' = "none"
    /\ file_id' = 0
    /\ ds' = "unset"
    /\ t' = 0
    /\ UNCHANGED exc

(***************************************************************************)
(* utils._retry (utils.py 96-112), wrapping upload_and_create_function     *)
(***************************************************************************)
\* Mutant: a later attempt resumes at the packaging, the deletes left out.
AttemptEntry_SkipDelete == IF attempt = 0 THEN "fn_retrieve" ELSE "zip"

\* fn() runs the wrapped function from its first statement:
\* remove_function_with_file / delete_single_cognite_function.
AttemptEntry == "fn_retrieve"

\* Mutant: the first pass of the loop is made whatever tries is.
LoopRuns_FirstAlways(triesLeft) == triesLeft # 0 \/ attempt = 0

\* utils.py 97: while tries
LoopRuns(triesLeft) == triesLeft # 0

\* while tries: try: return fn()
RetryLoop ==
    /\ pc = "retry"
    /\ IF LoopRuns(tries)
       THEN /\ attempt' = attempt + 1
            /\ pc' = AttemptEntry
            /\ UNCHANGED outcome
       ELSE /\ pc' = "done"
            /\ outcome' = [kind |-> "returned", exc |-> NoExc, fn |-> NoFunction]
            /\ UNCHANGED attempt
    /\ log' = <<>>
    /\ exc' = NoExc
    /\ UNCHANGED <<envVars, remote, tries, delay, sleeps, locals, dsCache, harnessVars>>

\* Mutant: the loop gives up while one try is left.
RetryDecision_OneShort(type, triesLeft) ==
    IF type \in RetriedExceptions
    THEN IF triesLeft - 1 <= 1 THEN "raise" ELSE "sleep"
    ELSE "propagate"

\* What _retry does with an exception of class type raised by fn() when triesLeft
\* tries are left: not caught (not in `exceptions`), re-raised (tries used up
\* after tries -= 1), or slept on before the next pass of the loop.
RetryDecision(type, triesLeft) ==
    IF type \in RetriedExceptions
    THEN IF triesLeft - 1 = 0 THEN "raise" ELSE "sleep"
    ELSE "propagate"

\* except exceptions: tries -= 1; if not tries: raise
RetryExcept ==
    /\ pc = "retry_except"
    /\ LET d == RetryDecision(exc.type, tries) IN
         /\ tries' = IF d = "propagate" THEN tries ELSE tries - 1
         /\ IF d = "sleep"
            THEN /\ pc' = "retry_sleep"
                 /\ UNCHANGED outcome
            ELSE /\ pc' = "done"
                 /\ outcome' = [kind |-> "raised", exc |-> exc, fn |-> NoFunction]
    /\ UNCHANGED <<envVars, remote, delay, attempt, sleeps, log, locals, dsCache, exc,
                   harnessVars>>

\* max_delay=None, the default both decorators leave
NoMaxDelay == -1
RetryMaxDelay == IF pipeline \in {"legacy", "oidc"} THEN NoMaxDelay ELSE cfg.max_delay

\* Mutant: the jitter is added before the backoff is applied.
NextDelay_JitterFirst(d) ==
    LET n == (d + RetryJitter) * RetryBackoff
    IN IF RetryMaxDelay = NoMaxDelay \/ n <= RetryMaxDelay THEN n ELSE RetryMaxDelay

\* utils.py 108-111: delay *= backoff; delay += jitter;
\* if max_delay is not None: delay = min(delay, max_delay)
NextDelay(d) ==
    LET n == d * RetryBackoff + RetryJitter
    IN IF RetryMaxDelay = NoMaxDelay \/ n <= RetryMaxDelay THEN n ELSE RetryMaxDelay

\* time.sleep(delay), then the next delay
RetrySleep ==
    /\ pc = "retry_sleep"
    /\ sleeps' = Append(sleeps, delay)
    /\ delay' = NextDelay(delay)
    /\ pc' = "retry"
    /\ UNCHANGED <<envVars, remote, tries, attempt, log, locals, dsCache, exc, outcome,
                   harnessVars>>

(***************************************************************************)
(* Deletion: function.delete_function, function_file.delete_function_file, *)
(* and the settle delay of remove_function_with_file /                     *)
(* delete_single_cognite_function                                          *)
(***************************************************************************)
\* Mutant: the delete is issued whatever the lookup returned.
AfterFnRetrieve_Always(fn) == "fn_delete"

\* delete_function: if function is not None: ... delete ... else: (log only)
AfterFnRetrieve(fn) == IF fn.status # "none" THEN "fn_delete" ELSE "file_retrieve"

\* delete_function: function = client.functions.retrieve(external_id=external_id)
FnRetrieve ==
    /\ pc = "fn_retrieve"
    /\ log' = Append(log, Call("functions.retrieve", 0))
    /\ \E fail \in Fails("functions.retrieve") :
         IF fail
         THEN \E e \in ApiError("delete_function:retrieve") : Raise(e, FALSE)
         ELSE /\ pc' = AfterFnRetrieve(remote.fn)
              /\ UNCHANGED <<locals, exc, outcome>>
    /\ UNCHANGED <<envVars, remote, retryVars, dsCache, harnessVars>>

\* delete_function: client.functions.delete(external_id=external_id)
FnDelete ==
    /\ pc = "fn_delete"
    /\ log' = Append(log, Call("functions.delete", 0))
    /\ \E fail \in IF remote.fn.status = "none" THEN {TRUE} ELSE Fails("functions.delete") :
         IF fail
         THEN /\ \E e \in ApiError("delete_function:delete") : Raise(e, FALSE)
              /\ UNCHANGED remote
         ELSE /\ remote' = [remote EXCEPT !.fn = NoFunction]
              /\ pc' = "file_retrieve"
              /\ UNCHANGED <<locals, exc, outcome>>
    /\ UNCHANGED <<envVars, retryVars, dsCache, harnessVars>>

\* Mutant: the settle delay is skipped.
AfterFileDelete_NoSettle ==
    IF mode = "remove" THEN "settle"
    ELSE IF pipeline = "legacy" /\ cfg.remove_schedules THEN "sched_delete" ELSE "zip"

\* Where the deletion goes on after the code file: legacy removes the schedules
\* when remove_schedules is set (function.py 83-84).
AfterFileDelete ==
    IF pipeline = "legacy" /\ cfg.remove_schedules THEN "sched_delete" ELSE "settle"

\* delete_function_file: if (file_meta := ...) is None: return
AfterFileRetrieve(meta) == IF meta # "none" THEN "file_delete" ELSE AfterFileDelete

\* delete_function_file: file_meta = client.files.retrieve(external_id=xid)
FileRetrieve ==
    /\ pc = "file_retrieve"
    /\ log' = Append(log, Call("files.retrieve", 0))
    /\ \E fail \in Fails("files.retrieve") :
         IF fail
         THEN \E e \in ApiError("delete_function_file:retrieve") : Raise(e, FALSE)
         ELSE /\ file_meta' = remote.file
              /\ pc' = AfterFileRetrieve(remote.file)
              /\ UNCHANGED <<function, file_id, ds, t, exc, outcome>>
    /\ UNCHANGED <<envVars, remote, retryVars, dsCache, harnessVars>>

\* Mutant: the error is swallowed whether or not a data set governs the file.
SwallowFileDeleteError_Always(meta) == TRUE

\* except CogniteAPIError: if file_meta.data_set_id is None: raise
SwallowFileDeleteError(meta) == meta = "governed"

\* delete_function_file: try: client.files.delete(external_id=xid) except CogniteAPIError: ...
FileDelete ==
    /\ pc = "file_delete"
    /\ log' = Append(log, Call("files.delete", 0))
    /\ \E fail \in IF remote.file = "none" THEN {TRUE} ELSE Fails("files.delete") :
         IF fail
         THEN /\ UNCHANGED remote
              /\ IF SwallowFileDeleteError(file_meta)
                 THEN /\ pc' = AfterFileDelete
                      /\ UNCHANGED <<locals, exc, outcome>>
                 ELSE \E e \in ApiError("delete_function_file:delete") : Raise(e, FALSE)
         ELSE /\ remote' = [remote EXCEPT !.file = "none"]
              /\ pc' = AfterFileDelete
              /\ UNCHANGED <<locals, exc, outcome>>
    /\ UNCHANGED <<envVars, retryVars, dsCache, harnessVars>>

\* delete_function_schedules(client, external_id): list the function's schedules
\* and delete each.
SchedDelete ==
    /\ pc = "sched_delete"
    /\ \E fail \in Fails("schedules.delete") :
         IF fail
         THEN /\ \E e \in ApiError("delete_function_schedules") : Raise(e, FALSE)
              /\ log' = Append(log, Call("schedules.list", 0))
              /\ UNCHANGED remote
         ELSE /\ log' = Append(log, Call("schedules.list", 0))
                          \o [i \in 1..remote.scheds |-> Call("schedules.delete", i)]
              /\ remote' = [remote EXCEPT !.scheds = 0]
              /\ pc' = "settle"
              /\ UNCHANGED <<locals, exc, outcome>>
    /\ UNCHANGED <<envVars, retryVars, dsCache, harnessVars>>

\* time.sleep(3), then back in the caller
Settle ==
    /\ pc = "settle"
    /\ log' = Append(log, Call("sleep", SETTLE_SEC))
    /\ IF mode = "remove"
       THEN /\ pc' = "removed"
            /\ outcome' = [kind |-> "returned", exc |-> NoExc, fn |-> NoFunction]
            /\ file_meta' = "none"
       ELSE /\ pc' = "zip"
            /\ file_meta' = "none"
            /\ UNCHANGED outcome
    /\ UNCHANGED <<envVars, remote, retryVars, function, file_id, ds, t, dsCache, exc,
                   harnessVars>>

(***************************************************************************)
(* Upload: zip_and_upload_folder                                           *)
(***************************************************************************)
\* The ZipFile block: walking and zipping the folders may raise OSError.
Zip ==
    /\ pc = "zip"
    /\ \E fail \in BOOLEAN :
         IF fail
         THEN Raise(NewExc("OSError", <<"No such file or directory">>,
                           "zip_and_upload_folder:zip"), TRUE)
         ELSE /\ pc' = IF cfg.data_set THEN "ds_retrieve" ELSE "upload"
              /\ ds' = IF cfg.data_set THEN ds ELSE "no_id"
              /\ UNCHANGED <<function, file_meta, file_id, t, exc, outcome>>
    /\ UNCHANGED <<envVars, remote, retryVars, log, dsCache, harnessVars>>

DataSetReadMsg ==
    <<"Unable to retrieve dataset: Deployment key is missing capability 'dataset:READ'.">>

\* legacy: function.retrieve_dataset (function.py 36-51)
\* oidc:   utils.retrieve_dataset, under lru_cache (utils.py 64-69)
DsRetrieve ==
    /\ pc = "ds_retrieve"
    /\ IF pipeline = "oidc" /\ dsCache # "empty"
       THEN /\ ds' = dsCache
            /\ pc' = "upload"
            /\ UNCHANGED <<function, file_meta, file_id, t, log, dsCache, exc, outcome>>
       ELSE /\ log' = Append(log, Call("data_sets.retrieve", 0))
            /\ \E fail \in Fails("data_sets.retrieve") :
                 IF fail
                 THEN /\ IF pipeline = "legacy"
                         THEN Raise(NewExc("CogniteAPIError", DataSetReadMsg,
                                           "retrieve_dataset:51"), TRUE)
                         ELSE \E e \in ApiError("retrieve_dataset:retrieve") : Raise(e, TRUE)
                      /\ UNCHANGED dsCache
                 ELSE IF remote.ds = "none"
                      THEN /\ Raise(NewExc("ValueError", <<"No dataset exists">>,
                                           "retrieve_dataset:raise"), TRUE)
                           /\ UNCHANGED dsCache
                      ELSE /\ ds' = remote.ds
                           /\ dsCache' = IF pipeline = "oidc" THEN remote.ds ELSE dsCache
                           /\ pc' = "upload"
                           /\ UNCHANGED <<function, file_meta, file_id, t, exc, outcome>>
    /\ UNCHANGED <<envVars, remote, retryVars, harnessVars>>

UploadProtectedMsg == <<"Unable to upload file to WRITE-PROTECTED dataset">>
UploadDataSetMsg == <<"Unable to upload file to dataset">>

\* upload_zipped_code_to_files, then zip_and_upload_folder's check of file_meta.id
Upload ==
    /\ pc = "upload"
    /\ log' = Append(log, Call("files.upload_bytes", 0))
    /\ \E fail \in Fails("files.upload_bytes") :
         IF fail
         THEN /\ IF ds = "no_id"
                 THEN \E e \in ApiError("upload_zipped_code_to_files:upload") : Raise(e, TRUE)
                 ELSE Raise(NewExc("CogniteAPIError",
                                   IF ds = "protected" THEN UploadProtectedMsg
                                                       ELSE UploadDataSetMsg,
                                   "upload_zipped_code_to_files:raise"), TRUE)
              /\ UNCHANGED remote
         ELSE /\ remote' = [remote EXCEPT !.file = IF ds = "no_id" THEN "plain" ELSE "governed"]
              /\ \E id \in {0, 1} :
                   IF id # 0
                   THEN /\ file_id' = id
                        /\ pc' = "create"
                        /\ UNCHANGED <<function, file_meta, ds, t, exc, outcome>>
                   ELSE Raise(NewExc("FunctionDeployError", <<"Failed to upload file">>,
                                     "zip_and_upload_folder:raise"), TRUE)
    /\ UNCHANGED <<envVars, retryVars, dsCache, harnessVars>>

(***************************************************************************)
(* Create                                                                  *)
(***************************************************************************)
\* The function as the service registers it.
Created == [status |-> "Queued", error |-> NoError]

\* What a failed create call may leave behind: "Function was registered, but an
\* unknown error occurred" (function.py 210).
AfterFailedCreate(fn) ==
    {fn} \cup (IF fn.status = "none" THEN {Created} ELSE {})

\* Mutant: the message is compared with the phrase instead of searched for it.
IsDuplicateError_Equal(e) == e.msg = <<DupPhrase>>

\* "Function externalId duplicated" in e.message
IsDuplicateError(e) == IsInfix(<<DupPhrase>>, e.msg)

\* orchestrator.py 28: create_function(client, file_id, fn_config). A rejected
\* creation (duplicate external id) is a FunctionDeployError, any other remote
\* error is raised as it is.
CreateFunctionError(e) ==
    IF IsDuplicateError(e)
    THEN Reraised("FunctionDeployError", e.msg, "create_function:raise", e)
    ELSE e

\* Mutant: the deployment is awaited only when await_deployment_success is off.
AwaitsDeployment_Inverted == ~cfg.await

\* orchestrator.py 30: if fn_config.await_deployment_success
AwaitsDeployment == cfg.await

\* legacy: create_function_and_wait up to the create call (function.py 117-134)
\* oidc:   create_function, then orchestrator.py 29-36
Create ==
    /\ pc = "create"
    /\ log' = Append(log, Call("functions.create", file_id))
    /\ \E fail \in IF remote.fn.status # "none" THEN {TRUE} ELSE Fails("functions.create") :
         IF fail
         THEN /\ \E e \in ApiError("create_function:create")
                            \cup TransientError("create_function:create") :
                   Raise(IF pipeline = "oidc" THEN CreateFunctionError(e) ELSE e, TRUE)
              /\ \E f \in AfterFailedCreate(remote.fn) : remote' = [remote EXCEPT !.fn = f]
         ELSE /\ remote' = [remote EXCEPT !.fn = Created]
              /\ IF pipeline = "legacy"
                 THEN /\ pc' = "await_retrieve"
                      /\ UNCHANGED <<locals, exc, outcome>>
                 ELSE IF AwaitsDeployment
                      THEN /\ function' = Created
                           /\ t' = 0
                           /\ pc' = "poll"
                           /\ UNCHANGED <<file_meta, file_id, ds, exc, outcome>>
                      ELSE Return(Created)
    /\ UNCHANGED <<envVars, retryVars, dsCache, harnessVars>>

(***************************************************************************)
(* await_function_deployment (function.py 54-76)                           *)
(***************************************************************************)
\* function := client.functions.retrieve(external_id=external_id); t0 = time.time()
AwaitRetrieve ==
    /\ pc = "await_retrieve"
    /\ log' = Append(log, Call("functions.retrieve", 0))
    /\ \E fail \in Fails("functions.retrieve") :
         IF fail
         THEN /\ \E e \in ApiError("await_function_deployment:retrieve") : Raise(e, TRUE)
              /\ UNCHANGED remote
         ELSE IF remote.fn.status = "none"
              THEN /\ Raise(NewExc("FunctionDeployError", <<"No function exists">>,
                                   "await_function_deployment:58"), TRUE)
                   /\ UNCHANGED remote
              ELSE /\ \E f \in Reads(remote.fn) :
                        /\ function' = f
                        /\ remote' = [remote EXCEPT !.fn = f]
                   /\ t' = 0
                   /\ pc' = "poll"
                   /\ UNCHANGED <<file_meta, file_id, ds, exc, outcome>>
    /\ UNCHANGED <<envVars, retryVars, dsCache, harnessVars>>

\* Mutant: the trace is left out of the text.
FailedMsg_NoTrace(error) == <<"Error message: ">> \o error.message \o <<".">>

\* err_msg = f"Error message: {function.error['message']}.\nTrace: {function.error['trace']}"
FailedMsg(error) == <<"Error message: ">> \o error.message \o <<".\nTrace: ">> \o error.trace

TimeoutMsg == <<"did not deploy within the wait time">>

\* Mutant: Ready is only acted on after one more sleep and refresh.
PollVerdict_ReadyLate(elapsed, wait, status) ==
    IF elapsed <= wait
    THEN CASE status = "Ready"  -> IF elapsed = 0 THEN "sleep" ELSE "return"
           [] status = "Failed" -> "raise_failed"
           [] OTHER             -> "sleep"
    ELSE "raise_timeout"

\* Mutant: the loop goes on for one more interval after the budget.
PollVerdict_LateTimeout(elapsed, wait, status) ==
    IF elapsed <= wait + POLL_INTERVAL_SEC
    THEN CASE status = "Ready"  -> "return"
           [] status = "Failed" -> "raise_failed"
           [] OTHER             -> "sleep"
    ELSE "raise_timeout"

\* What one pass of the loop head does with the time and the status it sees.
PollVerdict(elapsed, wait, status) ==
    IF elapsed <= wait
    THEN CASE status = "Ready"  -> "return"
           [] status = "Failed" -> "raise_failed"
           [] OTHER             -> "sleep"
    ELSE "raise_timeout"

\* One pass of while time.time() <= t0 + wait_time_sec: the two status checks, then
\* time.sleep(5) and function.update(); after the loop the timeout.
Poll ==
    /\ pc = "poll"
    /\ LET v == PollVerdict(t, cfg.wait, function.status) IN
         CASE v = "return" ->
                /\ Return(function)
                /\ UNCHANGED remote
           [] v = "raise_failed" ->
                /\ Raise(NewExc("FunctionDeployError", FailedMsg(function.error),
                                "await_function_deployment:69"), TRUE)
                /\ UNCHANGED remote
           [] v = "sleep" ->
                \E fail \in Fails("functions.retrieve") :
                  IF fail
                  THEN /\ \E e \in ApiError("await_function_deployment:update") : Raise(e, TRUE)
                       /\ UNCHANGED remote
                  ELSE /\ \E f \in Reads(remote.fn) :
                            /\ function' = f
                            /\ remote' = [remote EXCEPT !.fn = f]
                       /\ t' = t + POLL_INTERVAL_SEC
                       /\ pc' = "poll"
                       /\ UNCHANGED <<file_meta, file_id, ds, exc, outcome>>
           [] OTHER ->
                /\ Raise(NewExc("FunctionDeployTimeout", TimeoutMsg,
                                "await_function_deployment:76"), TRUE)
                /\ UNCHANGED remote
    /\ UNCHANGED <<envVars, retryVars, log, dsCache, harnessVars>>

(***************************************************************************)
(* legacy upload_and_create_function: except CogniteAPIError as e          *)
(* (function.py 208-212)                                                   *)
(***************************************************************************)
ExceptApi ==
    /\ pc = "except_api"
    /\ exc' = IF IsDuplicateError(exc)
              THEN Reraised("FunctionDeployError", exc.msg, "upload_and_create_function:211", exc)
              ELSE exc
    /\ pc' = "retry_except"
    /\ UNCHANGED <<envVars, remote, retryVars, log, locals, dsCache, outcome, harnessVars>>

(***************************************************************************)
(* Specification of one run of upload_and_create_function                  *)
(***************************************************************************)
Next ==
    \/ RetryLoop
    \/ RetryExcept
    \/ RetrySleep
    \/ FnRetrieve
    \/ FnDelete
    \/ FileRetrieve
    \/ FileDelete
    \/ SchedDelete
    \/ Settle
    \/ Zip
    \/ DsRetrieve
    \/ Upload
    \/ Create
    \/ AwaitRetrieve
    \/ Poll
    \/ ExceptApi

Spec == Init /\ [][Next]_vars

(***************************************************************************)
(* remove_function_with_file (orchestrator.py 16-19) run twice in a row    *)
(* against a service that answers the same call the same way               *)
(***************************************************************************)
InitRemove ==
    /\ pipeline = "oidc"
    /\ mode = "remove"
    /\ cfg \in { c \in ConfigOf("oidc") : ~c.data_set /\ c.await /\ c.wait = 0 }
    /\ remote \in { r \in RemoteStates : r.ds = "none" /\ r.scheds = 0 }
    /\ faulty \in SUBSET RemoteOps
    /\ flaky = FALSE
    /\ pc = "fn_retrieve"
    /\ tries = 0
    /\ delay = 0
    /\ attempt = 0
    /\ sleeps = <<>>
    /\ round = 1
    /\ NoVerification
    /\ NoScheduleHandling
    /\ InitLocals
    /\ ComponentsIdle
    /\ after1 = [remote |-> remote, outcome |-> outcome]

\* The first run is over (returned or raised): the second one starts.
RemoveAgain ==
    /\ pc = "removed"
    /\ round = 1
    /\ after1' = [remote |-> remote, outcome |-> outcome]
    /\ round' = 2
    /\ pc' = "fn_retrieve"
    /\ log' = <<>>
    /\ exc' = NoExc
    /\ outcome' = [kind |-> "running", exc |-> NoExc, fn |-> NoFunction]
    /\ UNCHANGED <<envVars, remote, retryVars, locals, dsCache>>

NextRemove ==
    \/ FnRetrieve
    \/ FnDelete
    \/ FileRetrieve
    \/ FileDelete
    \/ Settle
    \/ RemoveAgain

SpecRemove == InitRemove /\ [][NextRemove]_vars

(***************************************************************************)
(* access.py: verification of a credential's capabilities                  *)
(***************************************************************************)
Projects == {"p1", "p2"}

\* Capability.scope, a dict: the key "all", and the ids under "datasetScope" and
\* "idScope".
NoScope == [all |-> FALSE, datasetScope |-> {}, idScope |-> {}]
AllScope == [NoScope EXCEPT !.all = TRUE]
DatasetScope(ids) == [NoScope EXCEPT !.datasetScope = ids]
IdScope(ids) == [NoScope EXCEPT !.idScope = ids]

Capability(acl, actions, scope) == [acl |-> acl, actions |-> actions, scope |-> scope]

is_all_scope(c) == c.scope.all
\* Mutant: a data set scope counts whatever ids it names.
is_dataset_scope_AnyId(c, id) == c.scope.datasetScope # {}

is_dataset_scope(c, id) == id \in c.scope.datasetScope
is_ids_scope(c, id) == id \in c.scope.idScope

\* Capabilities a group of the service may hold.
CapabilityPool ==
    { Capability("functionsAcl", {"READ", "WRITE"}, AllScope),
      Capability("functionsAcl", {"WRITE"}, AllScope),
      Capability("functionsAcl", {"READ", "WRITE"}, NoScope),
      Capability("sessionsAcl", {"CREATE"}, AllScope),
      Capability("sessionsAcl", {"CREATE"}, NoScope),
      Capability("filesAcl", {"READ", "WRITE"}, AllScope),
      Capability("filesAcl", {"READ"}, AllScope),
      Capability("filesAcl", {"READ", "WRITE"}, DatasetScope({1})),
      Capability("filesAcl", {"WRITE"}, DatasetScope({1})),
      Capability("filesAcl", {"READ", "WRITE"}, DatasetScope({2})),
      Capability("filesAcl", {"READ", "WRITE"}, NoScope),
      Capability("datasetsAcl", {"READ"}, AllScope),
      Capability("datasetsAcl", {"READ"}, IdScope({1})),
      Capability("datasetsAcl", {"OWNER"}, IdScope({1})),
      Capability("datasetsAcl", {"READ", "OWNER"}, IdScope({2})),
      Capability("datasetsAcl", {"READ", "OWNER"}, NoScope) }

\* Every action of every domain, for all resources.
FullGrant ==
    { Capability("functionsAcl", {"READ", "WRITE"}, AllScope),
      Capability("sessionsAcl", {"CREATE"}, AllScope),
      Capability("filesAcl", {"READ", "WRITE"}, AllScope),
      Capability("datasetsAcl", {"READ", "OWNER"}, AllScope) }

CapabilitySets == { cs \in SUBSET CapabilityPool : Cardinality(cs) <= MaxCapabs }

\* Mutant: the groups of every project are listed.
GroupsInUserScope_AnyProject(project) == UNION { iam.groups[p] : p \in Projects }

\* client.iam.groups.list(all=False), the client being the one created for the
\* credentials' project (configs.py 141-144, 196-198): the capabilities of the
\* groups the credentials are a member of in that project.
GroupsInUserScope(project) == iam.groups[project]

filter_capabilities(cs, acl) == { c \in cs : c.acl = acl }

\* The orders in which iterating over a set may yield its elements.
Enumerations(S) ==
    { f \in [1..Cardinality(S) -> S] : \A i, j \in DOMAIN f : i # j => f[i] # f[j] }

ACL_PROJECT_LIST == <<"projects:LIST (scope: 'all')">>
ACL_GROUPS_LIST == <<"groups:LIST (scope: 'all' OR 'currentuserscope')">>
MISSING_ACLS_WARNING == <<"(There might be more missing, but need the above-mentioned first to check!)">>

FunctionItem(m) == <<"functionsAcl:", m, " (scope: 'all')">>
SessionItem == <<"sessionsAcl:", "CREATE", " (scope: 'all')">>
FilesItemAll(m) == <<"filesAcl:", m, " (scope: 'all')", " (Tip: consider using a data set!)">>
FilesItemDataset(m, id) == <<"filesAcl:", m, " (scope: 'all'", " OR 'dataset: ", ToString(id), "')">>
DatasetReadItem(id) == <<"datasetsAcl:", "READ", " (scope: 'all' OR 'id: ", ToString(id), "')">>
DatasetOwnerHint == <<"(If dataset is write protected, you'll also need OWNER)">>
DatasetOwnerItem(id) ==
    <<"datasetsAcl:", "OWNER", " (scope: 'all' OR 'id: ", ToString(id), "').",
      " NB: 'all scope' not recommended!">>

\* Mutant: the two returns that follow the group listing are exchanged.
missing_basic_capabilities_Swapped ==
    CASE iam.inspect = "error" ->
           [calls |-> <<Call("iam.token.inspect", 0)>>,
            missing |-> <<ACL_PROJECT_LIST, ACL_GROUPS_LIST, MISSING_ACLS_WARNING>>]
      [] iam.inspect = "both" ->
           [calls |-> <<Call("iam.token.inspect", 0)>>, missing |-> <<>>]
      [] OTHER ->
           [calls |-> <<Call("iam.token.inspect", 0), Call("iam.groups.list", 0)>>,
            missing |-> IF iam.groups_ok
                        THEN <<ACL_GROUPS_LIST, MISSING_ACLS_WARNING>>
                        ELSE <<ACL_PROJECT_LIST, MISSING_ACLS_WARNING>>]

\* missing_basic_capabilities: the calls it issues and the list it returns.
missing_basic_capabilities ==
    CASE iam.inspect = "error" ->
           [calls |-> <<Call("iam.token.inspect", 0)>>,
            missing |-> <<ACL_PROJECT_LIST, ACL_GROUPS_LIST, MISSING_ACLS_WARNING>>]
      [] iam.inspect = "both" ->
           [calls |-> <<Call("iam.token.inspect", 0)>>, missing |-> <<>>]
      [] OTHER ->
           [calls |-> <<Call("iam.token.inspect", 0), Call("iam.groups.list", 0)>>,
            missing |-> IF iam.groups_ok
                        THEN <<ACL_PROJECT_LIST, MISSING_ACLS_WARNING>>
                        ELSE <<ACL_GROUPS_LIST, MISSING_ACLS_WARNING>>]

\* The lists missing_function_capabilities may return (one per iteration order of
\* the set of missing actions).
missing_function_capabilities(cs, required_actions) ==
    LET actions == UNION { c.actions : c \in filter_capabilities(cs, "functionsAcl") }
    IN  { [i \in 1..Len(e) |-> FunctionItem(e[i])] : e \in Enumerations(required_actions \ actions) }

missing_session_capabilities(cs) ==
    LET actions == UNION { c.actions : c \in filter_capabilities(cs, "sessionsAcl") }
    IN  IF "CREATE" \notin actions THEN <<SessionItem>> ELSE <<>>

\* data_set_actions of missing_files_capabilities
DataSetActions(cs, ds_id) ==
    UNION { c.actions : c \in { d \in filter_capabilities(cs, "datasetsAcl") :
                                  is_all_scope(d) \/ is_ids_scope(d, ds_id) } }

\* missing_files_capabilities up to the data set lookup: the lists it may have
\* built, and whether it goes on to retrieve the data set (lines 100-124).
missing_files_capabilities(cs, ds_id) ==
    LET files_capes == filter_capabilities(cs, "filesAcl")
        all_scope == UNION { c.actions : c \in { f \in files_capes : is_all_scope(f) } }
        missing_all == {"READ", "WRITE"} \ all_scope
        dsid_scope == UNION { c.actions : c \in { f \in files_capes : is_dataset_scope(f, ds_id) } }
        missing_ds == missing_all \ dsid_scope
        ds_actions == DataSetActions(cs, ds_id)
    IN  IF ds_id = 0
        THEN { [list |-> [i \in 1..Len(e) |-> FilesItemAll(e[i])], lookup |-> FALSE] :
                 e \in Enumerations(missing_all) }
        ELSE { [list |-> [i \in 1..Len(e) |-> FilesItemDataset(e[i], ds_id)]
                          \o (IF "READ" \notin ds_actions
                              THEN <<DatasetReadItem(ds_id)>>
                                   \o (IF "OWNER" \notin ds_actions
                                       THEN <<DatasetOwnerHint>> ELSE <<>>)
                              ELSE <<>>),
                 lookup |-> "READ" \in ds_actions] :
                 e \in Enumerations(missing_ds) }

\* Mutant: the data set is written to instead of read.
DataSetLookup_Update(id) == Call("data_sets.update", id)

\* client.data_sets.retrieve(id) of utils.retrieve_dataset
DataSetLookup(id) == Call("data_sets.retrieve", id)

\* Mutant: OWNER is required whether or not the data set is write-protected.
NeedsOwner_Always(dataset) == TRUE

\* retrieve_dataset(client, ds_id).write_protected
NeedsOwner(dataset) == dataset = "protected"

Upper(cred_type) == IF cred_type = "deploy" THEN "DEPLOY" ELSE "SCHEDULE"

\* linesep.join(f"- {i}: {s}" for i, s in enumerate(missing, 1)), from item i on
RECURSIVE MissingInfo(_, _)
MissingInfo(items, i) ==
    IF i > Len(items) THEN <<>>
    ELSE (IF i > 1 THEN <<"\n">> ELSE <<>>)
         \o <<"- ", ToString(i), ": ">> \o items[i] \o MissingInfo(items, i + 1)

\* Mutant: the error stops at the first missing item.
MissingAclMsg_FirstOnly(items, cred_type) ==
    <<Upper(cred_type), " credentials missing one (or more) required capabilities:\n">>
    \o MissingInfo(SubSeq(items, 1, 1), 1)

\* raise_on_missing: the text of the MissingAclError
MissingAclMsg(items, cred_type) ==
    <<Upper(cred_type), " credentials missing one (or more) required capabilities:\n">>
    \o MissingInfo(items, 1)

\* What a step of the verification leaves alone.
verifyFrame ==
    <<pipeline, mode, cfg, faulty, flaky, retryVars, locals, harnessVars, schedVars, creds, iam,
      componentVars>>

\* States of the service's identity management as seen with credentials of
\* project: the inspection answers, whether groups may be listed, the groups'
\* capabilities per project.
IamStates(project) ==
    { [inspect |-> i, groups_ok |-> g,
       groups |-> [p \in Projects |-> IF p = project THEN own ELSE other]] :
        i \in {"error", "empty", "projects", "capabilities", "both"},
        g \in BOOLEAN,
        own \in CapabilitySets \cup {FullGrant},
        other \in {{}, FullGrant} }

\* The verifier as the validators of configs.py call it (141-144, 196-198).
InitVerify ==
    /\ pipeline = "oidc"
    /\ mode = "verify"
    /\ cfg \in { c \in ConfigOf("oidc") : ~c.data_set /\ c.await /\ c.wait = 0 }
    /\ creds \in { [cred_name |-> n, project |-> p, ds_id |-> d] :
                     n \in {"deploy", "schedule"}, p \in Projects, d \in {0, 1} }
    /\ (creds.cred_name = "schedule" => creds.ds_id = 0)
    /\ iam \in IamStates(creds.project)
    /\ (iam.inspect # "both" \/ ~iam.groups_ok => iam.groups[creds.project] \in {{}, FullGrant})
    /\ remote \in { r \in RemoteStates :
                      r.fn = NoFunction /\ r.file = "none" /\ r.scheds = 0 }
    /\ (creds.ds_id = 0 => remote.ds = "none")
    /\ faulty = {}
    /\ flaky = TRUE
    /\ pc = "v_basics"
    /\ tries = 0
    /\ delay = 0
    /\ attempt = 0
    /\ sleeps = <<>>
    /\ round = 0
    /\ capabs = {}
    /\ missing = <<>>
    /\ NoScheduleHandling
    /\ InitLocals
    /\ ComponentsIdle
    /\ after1 = [remote |-> remote, outcome |-> outcome]

\* An exception leaves the verifier.
VerifyRaise(e) ==
    /\ exc' = e
    /\ outcome' = [kind |-> "raised", exc |-> e, fn |-> NoFunction]
    /\ pc' = "v_done"

\* Mutant: the capabilities are retrieved whatever the baseline check found.
AfterBasics_NoGate(missing_basic) == "v_groups"

\* access.py 133-136: if missing_basic: raise_on_missing(...); otherwise
\* return retrieve_and_parse_capabilities(...)
AfterBasics(missing_basic) == IF missing_basic = <<>> THEN "v_groups" ELSE "v_end"

\* check_basics_and_retrieve_capabilities: if missing_basic := ...: raise_on_missing
CheckBasics ==
    /\ pc = "v_basics"
    /\ log' = log \o missing_basic_capabilities.calls
    /\ missing' = missing_basic_capabilities.missing
    /\ pc' = AfterBasics(missing_basic_capabilities.missing)
    /\ UNCHANGED <<verifyFrame, remote, dsCache, capabs, exc, outcome>>

\* retrieve_and_parse_capabilities
RetrieveCapabilities ==
    /\ pc = "v_groups"
    /\ log' = Append(log, Call("iam.groups.list", 0))
    /\ IF iam.groups_ok
       THEN /\ capabs' = GroupsInUserScope(creds.project)
            /\ pc' = "v_missing"
            /\ UNCHANGED <<exc, outcome>>
       ELSE /\ \E e \in ApiError("retrieve_groups_in_user_scope") : VerifyRaise(e)
            /\ UNCHANGED capabs
    /\ UNCHANGED <<verifyFrame, remote, dsCache, missing>>

\* verify_deploy_capabilites 156 up to the data set lookup;
\* verify_schedule_creds_capabilities 143
ComputeMissing ==
    /\ pc = "v_missing"
    /\ IF creds.cred_name = "deploy"
       THEN \E fm \in missing_function_capabilities(capabs, {"READ", "WRITE"}),
               fl \in missing_files_capabilities(capabs, creds.ds_id) :
              /\ missing' = fm \o fl.list
              /\ pc' = IF fl.lookup THEN "v_dataset" ELSE "v_end"
       ELSE \E fm \in missing_function_capabilities(capabs, {"WRITE"}) :
              /\ missing' = fm \o missing_session_capabilities(capabs)
              /\ pc' = "v_end"
    /\ UNCHANGED <<verifyFrame, remote, dsCache, capabs, log, exc, outcome>>

\* missing_files_capabilities 126-129: retrieve_dataset (utils.py 65-69, under
\* lru_cache), then the OWNER check
RetrieveDatasetForOwner ==
    /\ pc = "v_dataset"
    /\ LET owner(dataset) ==
             IF NeedsOwner(dataset) /\ "OWNER" \notin DataSetActions(capabs, creds.ds_id)
             THEN <<DatasetOwnerItem(creds.ds_id)>> ELSE <<>>
       IN IF dsCache # "empty"
          THEN /\ missing' = missing \o owner(dsCache)
               /\ pc' = "v_end"
               /\ UNCHANGED <<log, dsCache, exc, outcome>>
          ELSE /\ log' = Append(log, DataSetLookup(creds.ds_id))
               /\ \E fail \in Fails("data_sets.retrieve") :
                    IF fail
                    THEN /\ \E e \in ApiError("retrieve_dataset:retrieve") : VerifyRaise(e)
                         /\ UNCHANGED <<missing, dsCache>>
                    ELSE IF remote.ds = "none"
                         THEN /\ VerifyRaise(NewExc("ValueError", <<"No dataset exists">>,
                                                    "retrieve_dataset:raise"))
                              /\ UNCHANGED <<missing, dsCache>>
                         ELSE /\ missing' = missing \o owner(remote.ds)
                              /\ dsCache' = remote.ds
                              /\ pc' = "v_end"
                              /\ UNCHANGED <<exc, outcome>>
    /\ UNCHANGED <<verifyFrame, remote, capabs>>

\* if missing: raise_on_missing(missing, cred_name); otherwise the verifier returns
VerifyEnd ==
    /\ pc = "v_end"
    /\ IF missing # <<>>
       THEN VerifyRaise(NewExc("MissingAclError", MissingAclMsg(missing, creds.cred_name),
                               "raise_on_missing"))
       ELSE /\ pc' = "v_done"
            /\ outcome' = [kind |-> "returned", exc |-> NoExc, fn |-> NoFunction]
            /\ UNCHANGED exc
    /\ UNCHANGED <<verifyFrame, remote, dsCache, capabs, missing, log>>

NextVerify ==
    \/ CheckBasics
    \/ RetrieveCapabilities
    \/ ComputeMissing
    \/ RetrieveDatasetForOwner
    \/ VerifyEnd

SpecVerify == InitVerify /\ [][NextVerify]_vars

(***************************************************************************)
(* Schedules: the schedule file is read when the configuration is          *)
(* validated (configs.py, oidc) or partly then and partly when the         *)
(* schedules property is read (config.py, legacy); deploy_schedules of     *)
(* schedule.py attaches the parsed schedules to the deployed function.     *)
(***************************************************************************)
ExternalIds == { <<"fn-a">>, <<"fn-b">> }

VALID_CRON == "*/5 * * * *"
INVALID_CRON == "every day"

\* CronSlices.is_valid(cron)
CronSlices_is_valid(cron) == cron = VALID_CRON

\* One object of the YAML sequence; name <<>> stands for an object without "name".
RawSchedules ==
    { [name |-> n, cron |-> c] :
        n \in { <<>>, <<"daily">>, <<"hourly">> }, c \in {VALID_CRON, INVALID_CRON} }

\* What the path of the schedule file holds: nothing ("missing"), an empty
\* document ("empty"), text that is not YAML ("unparseable") or a sequence.
ScheduleFiles ==
    { [kind |-> k, items |-> <<>>] : k \in {"missing", "empty", "unparseable"} }
    \cup { [kind |-> "sequence", items |-> items] :
             items \in UNION { [1..n -> RawSchedules] : n \in 1..MaxEntries } }

IsSequenceFile(disk) == disk.kind = "sequence"

\* The name a parsed schedule carries: legacy config.py 185
\* (self.external_id + ":" + schedule.get("name", f"undefined-{i}")),
\* oidc configs.py 172 (FunctionSchedule.parse_obj keeps the declared name).
ParsedName(p, xid, raw, i) ==
    IF p = "legacy"
    THEN xid \o <<":">> \o (IF raw.name = <<>> THEN <<"undefined-", ToString(i)>> ELSE raw.name)
    ELSE raw.name

\* Whether pydantic accepts the object: NonEmptyString name (oidc), valid cron.
Parses(p, raw) ==
    /\ CronSlices_is_valid(raw.cron)
    /\ (p = "oidc" => raw.name # <<>>)

\* The parsed list; index i of enumerate() starts at 0.
ParseAll(p, xid, disk) ==
    [i \in 1..Len(disk.items) |->
        [name |-> ParsedName(p, xid, disk.items[i], i - 1),
         cron_expression |-> disk.items[i].cron]]

\* The exception reading the file's content raises.
ParseError(p, disk) ==
    CASE disk.kind = "unparseable" -> NewExc("YAMLError", <<"could not parse">>, "safe_load")
      [] disk.kind = "empty" -> NewExc("TypeError", <<"'NoneType' object is not iterable">>,
                                  "schedules:enumerate")
      [] OTHER -> NewExc("ValidationError", <<"validation error for schedule">>,
                         IF p = "legacy" THEN "ScheduleConfig" ELSE "FunctionSchedule.parse_obj")

MissingFileWarning == <<"Ignoring given schedule file, path does not exist">>
EmptyFileWarning == <<"Given schedule file appears empty and was ignored">>

\* What a step of the schedule handling leaves alone.
schedFrame ==
    <<pipeline, mode, cfg, faulty, flaky, retryVars, locals, harnessVars, dsCache, verifyVars, senv,
      componentVars>>

InitSchedules ==
    /\ pipeline \in {"legacy", "oidc"}
    /\ mode = "schedules"
    /\ cfg \in { c \in ConfigOf("oidc") : ~c.data_set /\ c.await /\ c.wait = 0 }
    /\ remote \in { r \in RemoteStates :
                      r.fn = [status |-> "Ready", error |-> NoError] /\ r.file = "plain"
                      /\ r.ds = "none" }
    /\ senv \in { [xid |-> x, fn_id |-> f, credentials |-> c, disk |-> d] :
                    x \in ExternalIds, f \in {1, 2},
                    c \in {"schedule-creds-1", "schedule-creds-2"},
                    d \in ScheduleFiles \cup {NoFile} }
    /\ schedule_file \in {"none", "given"}
    /\ (schedule_file = "none" <=> senv.disk = NoFile)
    /\ schedules = <<>>
    /\ warnings = <<>>
    /\ faulty = {}
    /\ flaky = TRUE
    /\ pc = "s_validate"
    /\ tries = 0
    /\ delay = 0
    /\ attempt = 0
    /\ sleeps = <<>>
    /\ round = 0
    /\ NoVerification
    /\ InitLocals
    /\ ComponentsIdle
    /\ after1 = [remote |-> remote, outcome |-> outcome]

\* An exception leaves the validator, the property or deploy_schedules.
ScheduleRaise(e) ==
    /\ exc' = e
    /\ outcome' = [kind |-> "raised", exc |-> e, fn |-> NoFunction]
    /\ pc' = "s_done"

\* oidc: SchedulesConfig.verify_schedule_file_and_parse (configs.py 163-178);
\* legacy: FunctionConfig.check_schedules (config.py 153-162).
ValidateScheduleFile ==
    /\ pc = "s_validate"
    /\ IF schedule_file = "none"
       THEN /\ pc' = IF pipeline = "legacy" THEN "s_read" ELSE "s_deploy"
            /\ UNCHANGED <<schedule_file, schedules, warnings, exc, outcome>>
       ELSE IF senv.disk.kind = "missing"
       THEN /\ schedule_file' = "none"
            /\ warnings' = Append(warnings, MissingFileWarning)
            /\ pc' = IF pipeline = "legacy" THEN "s_read" ELSE "s_deploy"
            /\ UNCHANGED <<schedules, exc, outcome>>
       ELSE IF pipeline = "legacy"
       THEN /\ pc' = "s_read"
            /\ UNCHANGED <<schedule_file, schedules, warnings, exc, outcome>>
       ELSE IF senv.disk.kind = "empty"
       THEN /\ schedule_file' = "none"
            /\ warnings' = Append(warnings, EmptyFileWarning)
            /\ pc' = "s_deploy"
            /\ UNCHANGED <<schedules, exc, outcome>>
       ELSE IF IsSequenceFile(senv.disk) /\ \A i \in DOMAIN senv.disk.items : Parses("oidc", senv.disk.items[i])
       THEN /\ schedules' = ParseAll("oidc", senv.xid, senv.disk)
            /\ pc' = "s_deploy"
            /\ UNCHANGED <<schedule_file, warnings, exc, outcome>>
       ELSE /\ ScheduleRaise(ParseError("oidc", senv.disk))
            /\ UNCHANGED <<schedule_file, schedules, warnings>>
    /\ UNCHANGED <<schedFrame, remote, log>>

\* legacy: the schedules property (config.py 175-189), read by main (index.py 31-35)
ReadSchedules ==
    /\ pc = "s_read"
    /\ IF schedule_file = "none"
       THEN /\ pc' = "s_done"
            /\ outcome' = [kind |-> "returned", exc |-> NoExc, fn |-> NoFunction]
            /\ UNCHANGED <<schedules, exc>>
       ELSE IF IsSequenceFile(senv.disk) /\ \A i \in DOMAIN senv.disk.items : Parses("legacy", senv.disk.items[i])
       THEN /\ schedules' = ParseAll("legacy", senv.xid, senv.disk)
            /\ pc' = "s_done"
            /\ outcome' = [kind |-> "returned", exc |-> NoExc, fn |-> NoFunction]
            /\ UNCHANGED exc
       ELSE /\ ScheduleRaise(ParseError("legacy", senv.disk))
            /\ UNCHANGED schedules
    /\ UNCHANGED <<schedFrame, remote, log, schedule_file, warnings>>

\* Mutant: the schedule is created without the schedule credentials.
CreateArgs_NoCredentials(sch) ==
    [function_id |-> senv.fn_id, client_credentials |-> "none",
     name |-> sch.name, cron_expression |-> sch.cron_expression]

\* The keyword arguments of client.functions.schedules.create (schedule.py 38-42)
CreateArgs(sch) ==
    [function_id |-> senv.fn_id, client_credentials |-> senv.credentials,
     name |-> sch.name, cron_expression |-> sch.cron_expression]

\* deploy_schedules: if not (schedules := schedule_config.schedules): return
DeploySchedules ==
    /\ pc = "s_deploy"
    /\ IF schedules = <<>>
       THEN /\ pc' = "s_done"
            /\ outcome' = [kind |-> "returned", exc |-> NoExc, fn |-> NoFunction]
       ELSE /\ pc' = "s_create"
            /\ UNCHANGED outcome
    /\ UNCHANGED <<schedFrame, schedVars, remote, log, exc>>

\* deploy_schedules: one pass of `for s in schedules`; the calls made so far say
\* which schedule is next.
CreateSchedule ==
    /\ pc = "s_create"
    /\ LET i == Len(log) + 1
       IN /\ log' = Append(log, Call("schedules.create", CreateArgs(schedules[i])))
          /\ \E fail \in Fails("schedules.create") :
               IF fail
               THEN /\ \E e \in ApiError("deploy_schedules:create") : ScheduleRaise(e)
                    /\ UNCHANGED remote
               ELSE /\ remote' = [remote EXCEPT !.scheds = @ + 1]
                    /\ IF i = Len(schedules)
                       THEN /\ pc' = "s_done"
                            /\ outcome' = [kind |-> "returned", exc |-> NoExc, fn |-> NoFunction]
                       ELSE /\ pc' = "s_create"
                            /\ UNCHANGED outcome
                    /\ UNCHANGED exc
    /\ UNCHANGED <<schedFrame, schedule_file, schedules, warnings>>

NextSchedules ==
    \/ ValidateScheduleFile
    \/ ReadSchedules
    \/ DeploySchedules
    \/ CreateSchedule

SpecSchedules == InitSchedules /\ [][NextSchedules]_vars

(***************************************************************************)
(* Configuration: FunctionConfig.from_envvars (configs.py 67-82, 202-252)  *)
(* and create_fn_params. Names are sequences of characters.                *)
(***************************************************************************)
Letters ==
    {"a", "b", "c", "d", "e", "f", "g", "h", "i", "j", "k", "l", "m",
     "n", "o", "p", "q", "r", "s", "t", "u", "v", "w", "x", "y", "z"}
Digits == {"0", "1", "2", "3", "4", "5", "6", "7", "8", "9"}

\* \w of the regex
WordChars == Letters \cup Digits \cup {"_"}

\* str.strip() and strip_whitespace=True
Whitespace == {" ", "\n", "\t"}

RECURSIVE LStrip(_)
LStrip(x) == IF x # <<>> /\ Head(x) \in Whitespace THEN LStrip(Tail(x)) ELSE x

RECURSIVE RStrip(_)
RStrip(x) ==
    IF x # <<>> /\ x[Len(x)] \in Whitespace THEN RStrip(SubSeq(x, 1, Len(x) - 1)) ELSE x

Strip(x) == RStrip(LStrip(x))

\* Mutant: the character class of the pattern also holds the forward slash.
FnFileClass_WithSlash == WordChars \cup {"-", " ", "/"}

\* [\w\- ] of FnFileString
FnFileClass == WordChars \cup {"-", " "}

\* (py|js) of FnFileString
FnFileExtensions == { <<"p", "y">>, <<"j", "s">> }

\* FnFileString.regex.match(v): ^[\w\- ]+\.(py|js)$ ; $ also matches before a
\* newline that ends the text.
FnFileRegexMatch(v) ==
    \E k \in 1..Len(v) :
      /\ \A i \in 1..k : v[i] \in FnFileClass
      /\ k + 1 <= Len(v)
      /\ v[k + 1] = "."
      /\ \/ SubSeq(v, k + 2, Len(v)) \in FnFileExtensions
         \/ /\ v[Len(v)] = "\n"
            /\ SubSeq(v, k + 2, Len(v) - 1) \in FnFileExtensions

\* constr(min_length=1, strip_whitespace=True, regex=...): the validated value,
\* or Invalid
Invalid == <<"<invalid>">>

FnFileString(x) ==
    LET v == Strip(x)
    IN IF Len(v) >= 1 /\ FnFileRegexMatch(v) THEN v ELSE Invalid

\* defaults.DEFAULT_FUNCTION_FILE
DEFAULT_FUNCTION_FILE == <<"h", "a", "n", "d", "l", "e", "r", ".", "p", "y">>

\* The characters the enumerated names are made of.
NameChars == {"a", "/", "\\", ".", "-", " ", "p", "y", "j", "s"}

\* The names of the unit tests (test_utils.py 6-19, test_configs.py 108, 126).
TestNames ==
    { <<"b", "a", "z", ".", "p", "y">>,
      <<"h", "o", "m", "e", "/", "u", "s", "e", "r", "0", "/", "b", "a", "z", ".", "p", "y">>,
      <<"h", "o", "m", "e", "/", "u", "s", "e", "r", "_", "f", "o", "o", "/",
        "b", "a", "r", "-", "b", "a", "z", ".", "p", "y">>,
      <<"f", "o", "o", "/", "m", "a", "-", "i", "n", ".", "p", "y">>,
      <<"f", "o", "o", "/", "b", "a", "r", "/", "b", "a", "z", "/",
        "m", "a", "i", "n", "8", ".", "p", "y">>,
      <<"m", "a", "i", "n", ".", "p", "y">>,
      <<"/", "h", "o", "m", "e", "/", "u", "s", "e", "r", "/", "f", "o", "o", ".", "p", "y">>,
      <<"/", "h", "o", "m", "e", "/", "u", "s", "e", "r", "/", "/", "b", "a", "r", ".", "p", "y">>,
      <<"\\", "h", "a", "n", "d", "l", "e", "r", ".", "p", "y">>,
      <<"f", "o", "o", "\\", "h", "a", "n", "d", "l", "e", "r", ".", "p", "y">>,
      <<".", ".", "/", "a", ".", "p", "y">>,
      <<"a", "/", ".", ".", "/", "b", ".", "p", "y">>,
      <<"a", ".", "p", "y", "\n">>,
      <<"a", ".", "t", "x", "t">> }

Names == TestNames \cup UNION { [1..n -> NameChars] : n \in 1..MaxNameLen }

\* utils.py 22, 24: constr(max_length=...)
NonEmptyStringMax32 == 32
NonEmptyStringMax500 == 500

\* Lengths of the metadata keys and values tried, around the two limits.
Text(n, c) == [i \in 1..n |-> c]
MetadataKeys == { Text(1, "k"), Text(2, "k"), Text(NonEmptyStringMax32, "k"),
                  Text(NonEmptyStringMax32 + 1, "k") }
MetadataValues == { Text(1, "v"), Text(NonEmptyStringMax500, "v"),
                    Text(NonEmptyStringMax500 + 1, "v") }

\* The metadata maps passed: <<>> when the parameter is not given.
MetadataMaps ==
    UNION { [ks -> MetadataValues] : ks \in { k \in SUBSET MetadataKeys : Cardinality(k) <= MaxMetadata } }

\* The field a key of create_fn_params is read from (configs.py 219-230).
ParamSource(k) ==
    CASE k = "secrets" -> "function_secrets"
      [] k \in {"name", "external_id"} -> "function_external_id"
      [] k = "function_path" -> "function_file"
      [] OTHER -> k

\* The parameters of the workflow as environment variables; a parameter that is
\* not set reads as the empty string (configs.py 78).
Environment(file, metadata, xid, folder) ==
    [function_file |-> file, metadata |-> metadata,
     function_external_id |-> xid, function_folder |-> folder]

\* Values of function_external_id and function_folder: not set, blank, names
\* with and without blanks around them, a folder that does not exist.
EnvValues ==
    { <<>>, <<" ">>, <<"\t", "\n">>, <<"f", "n">>, <<" ", "f", "n", " ">>, <<"s", "r", "c">>,
      <<"g", "o", "n", "e">> }

\* What a step of the configuration handling leaves alone.
configFrame ==
    <<pipeline, mode, cfg, remote, faulty, flaky, retryVars, locals, harnessVars, dsCache, log,
      verifyVars, schedVars, envvars, mainVars, chdirVars, post_deploy_cleanup, runs>>

InitConfig ==
    /\ pipeline = "oidc"
    /\ mode = "config"
    /\ cfg \in { c \in ConfigOf("oidc") : ~c.data_set /\ c.await /\ c.wait = 0 }
    /\ remote \in { r \in RemoteStates :
                      r.fn = NoFunction /\ r.file = "none" /\ r.ds = "none" /\ r.scheds = 0 }
    /\ envvars \in { Environment(n, <<>>, <<"f", "n">>, <<"f", "n">>) : n \in Names }
                   \cup { Environment(<<>>, m, <<"f", "n">>, <<"f", "n">>) : m \in MetadataMaps }
                   \cup { Environment(n, <<>>, x, d) :
                            n \in {<<>>, <<" ">>, <<"a", ".", "p", "y">>, <<"a", "/">>},
                            x \in EnvValues, d \in EnvValues }
    /\ fn_config = NoConfig
    /\ fn_params = NoParams
    /\ faulty = {}
    /\ flaky = FALSE
    /\ pc = "c_parse"
    /\ tries = 0
    /\ delay = 0
    /\ attempt = 0
    /\ sleeps = <<>>
    /\ round = 0
    /\ NoVerification
    /\ NoScheduleHandling
    /\ NoMain
    /\ NoChdir
    /\ NoCleanup
    /\ NoRuns
    /\ InitLocals
    /\ after1 = [remote |-> remote, outcome |-> outcome]

\* Mutant: the parameter is read as it is, a blank one included.
get_parameter_NoStrip(value) == value

\* configs.py 72-78: getenv(..., "").strip() or None; <<>> stands for None.
get_parameter(value) == Strip(value)

\* The fields of FunctionConfig without a default (configs.py 203-204).
RequiredFields == <<"function_external_id", "function_folder">>

\* The directories that exist where the configuration is parsed.
ConfigDirs == { <<"f", "n">>, <<"s", "r", "c">> }

\* The fields pydantic reports: required ones that are not given, and a
\* function_file that does not match; with none of these, the root validator
\* (configs.py 244-252) reports a function_folder that is no directory.
FieldErrors(env) ==
    LET notGiven == SelectSeq(RequiredFields, LAMBDA f : get_parameter(env[f]) = <<>>)
        file == get_parameter(env.function_file)
        badFile == IF file # <<>> /\ FnFileString(file) = Invalid
                   THEN <<"function_file">> ELSE <<>>
        fields == notGiven \o badFile
    IN IF fields # <<>> THEN fields
       ELSE IF get_parameter(env.function_folder) \notin ConfigDirs
            THEN <<"__root__">> ELSE <<>>

\* PipelineModel.from_envvars: a parameter that is empty once stripped is left out
\* and the field takes its default; a parameter that is no field is not read.
FromEnvvars ==
    /\ pc = "c_parse"
    /\ LET given == get_parameter(envvars.function_file)
           value == IF given = <<>> THEN DEFAULT_FUNCTION_FILE ELSE FnFileString(given)
           errors == FieldErrors(envvars)
       IN IF errors # <<>>
          THEN /\ exc' = NewExc("ValidationError", errors, "FunctionConfig")
               /\ outcome' = [kind |-> "raised", exc |-> exc', fn |-> NoFunction]
               /\ pc' = "c_done"
               /\ UNCHANGED fn_config
          ELSE /\ fn_config' = [f \in FunctionConfigFields |->
                                  IF f = "function_file" THEN value
                                  ELSE IF f \in {"function_external_id", "function_folder"}
                                       THEN get_parameter(envvars[f])
                                       ELSE <<>>]
               /\ pc' = "c_params"
               /\ UNCHANGED <<exc, outcome>>
    /\ UNCHANGED <<configFrame, fn_params>>

\* FunctionConfig.create_fn_params (configs.py 218-230)
CreateFnParams ==
    /\ pc = "c_params"
    /\ fn_params' = [k \in CreateFnParamKeys |-> fn_config[ParamSource(k)]]
    /\ outcome' = [kind |-> "returned", exc |-> NoExc, fn |-> NoFunction]
    /\ pc' = "c_done"
    /\ UNCHANGED <<configFrame, fn_config, exc>>

NextConfig ==
    \/ FromEnvvars
    \/ CreateFnParams

SpecConfig == InitConfig /\ [][NextConfig]_vars

(***************************************************************************)
(* main (index.py 20-43): the delete-only branch, or checks, deployment,   *)
(* schedules and the output. The functions main calls are taken as single  *)
(* steps, each with every result the deployment model gives it; log holds  *)
(* the calls main has made.                                                *)
(***************************************************************************)
Ready == [status |-> "Ready", error |-> NoError]

\* delete_single_cognite_function (function.py 79-86): the remote state it may
\* leave and whether it raised. A failing call ends it where it stands; a failing
\* delete of a governed code file is swallowed and the file stays.
DeleteOutcomes(r, remove_schedules) ==
    LET noFn == [r EXCEPT !.fn = NoFunction]
        files == {"none"} \cup (IF r.file = "governed" THEN {"governed"} ELSE {})
        noFile == { [noFn EXCEPT !.file = f] : f \in files }
    IN { [remote |-> r, raised |-> TRUE], [remote |-> noFn, raised |-> TRUE] }
       \cup (IF remove_schedules
             THEN { [remote |-> x, raised |-> TRUE] : x \in noFile }
                  \cup { [remote |-> [x EXCEPT !.scheds = 0], raised |-> FALSE] : x \in noFile }
             ELSE { [remote |-> x, raised |-> FALSE] : x \in noFile })

\* upload_and_create_function (function.py 201-212): returns the deployed function
\* or raises, the old function, file and (with remove_schedules) schedules deleted
\* as far as it got.
DeployOutcomes(r, remove_schedules) ==
    { [remote |-> [d.remote EXCEPT !.fn = Ready, !.file = f], raised |-> FALSE] :
        d \in { x \in DeleteOutcomes(r, remove_schedules) : ~x.raised },
        f \in {"plain", "governed"} }
    \cup UNION { { [remote |-> [d.remote EXCEPT !.fn = fn, !.file = f], raised |-> TRUE] :
                     fn \in {d.remote.fn, [status |-> "Failed", error |-> NoError]},
                     f \in {d.remote.file, "plain"} } :
                   d \in DeleteOutcomes(r, remove_schedules) }

\* The exceptions the steps of main may end with.
MainErrors(step) ==
    CASE step = "run_checks" ->
           { NewExc("FunctionValidationError", <<"handle">>, "run_checks"),
             NewExc("FileNotFoundError", <<"function_file">>, "run_checks") }
      [] step = "schedules" ->
           { NewExc("ValidationError", <<"schedule">>, "config.schedules"),
             NewExc("CogniteAPIError", <<"Forbidden">>, "deploy_schedules") }
      [] step = "upload_and_create_function" ->
           { NewExc("CogniteAPIError", <<"Forbidden">>, "upload_and_create_function"),
             NewExc("FunctionDeployError", <<DupPhrase>>, "upload_and_create_function"),
             NewExc("FunctionDeployTimeout", <<"timeout">>, "upload_and_create_function") }
      [] OTHER ->
           { NewExc("CogniteAPIError", <<"Forbidden">>, "delete_single_cognite_function") }

\* What a step of main leaves alone.
mainFrame ==
    <<pipeline, mode, cfg, faulty, flaky, retryVars, file_meta, file_id, ds, t, dsCache,
      harnessVars, verifyVars, schedVars, configVars, chdirVars, post_deploy_cleanup, runs,
      remove_only>>

InitMain ==
    /\ pipeline = "legacy"
    /\ mode = "main"
    /\ cfg \in ConfigOf("legacy")
    /\ remove_only \in BOOLEAN
    /\ (remove_only => cfg.remove_schedules)
    /\ stdout = <<>>
    /\ remote \in RemoteStates
    /\ (cfg.data_set \/ remote.ds = "none")
    /\ faulty = {}
    /\ flaky = TRUE
    /\ pc = "m_start"
    /\ tries = 0
    /\ delay = 0
    /\ attempt = 0
    /\ sleeps = <<>>
    /\ round = 0
    /\ NoVerification
    /\ NoScheduleHandling
    /\ NoConfigHandling
    /\ NoChdir
    /\ NoCleanup
    /\ NoRuns
    /\ InitLocals
    /\ after1 = [remote |-> remote, outcome |-> outcome]

\* An exception leaves main: the process ends with it.
MainRaise(e) ==
    /\ exc' = e
    /\ outcome' = [kind |-> "raised", exc |-> e, fn |-> NoFunction]
    /\ pc' = "m_done"

\* Mutant: the delete-only branch falls through to the deployment.
AfterDeleteOnly_FallThrough == "m_checks"

\* index.py 25: return
AfterDeleteOnly == "m_done"

\* Mutant: the output is printed before the schedules are dealt with.
AfterDeploy_OutputFirst == "m_output"

\* index.py 29-41: the schedule step follows the deployment
AfterDeploy == "m_schedules"

\* index.py 21-22: client = create_experimental_cognite_client(...); if config.remove_only
MainStart ==
    /\ pc = "m_start"
    /\ log' = Append(log, Call("create_experimental_cognite_client", 0))
    /\ pc' = IF remove_only THEN "m_delete" ELSE "m_checks"
    /\ UNCHANGED <<mainFrame, remote, function, stdout, exc, outcome>>

\* index.py 24-25: delete_single_cognite_function(..., remove_schedules=True); return
MainDeleteOnly ==
    /\ pc = "m_delete"
    /\ log' = Append(log, Call("delete_single_cognite_function", "remove_schedules=True"))
    /\ \E d \in DeleteOutcomes(remote, TRUE) :
         /\ remote' = d.remote
         /\ IF d.raised
            THEN \E e \in MainErrors("delete_single_cognite_function") : MainRaise(e)
            ELSE /\ pc' = AfterDeleteOnly
                 /\ outcome' = IF AfterDeleteOnly = "m_done"
                               THEN [kind |-> "returned", exc |-> NoExc, fn |-> NoFunction]
                               ELSE outcome
                 /\ UNCHANGED exc
    /\ UNCHANGED <<mainFrame, function, stdout>>

\* index.py 28: run_checks(config)
MainRunChecks ==
    /\ pc = "m_checks"
    /\ log' = Append(log, Call("run_checks", 0))
    /\ \/ \E e \in MainErrors("run_checks") : MainRaise(e)
       \/ /\ pc' = "m_deploy"
          /\ UNCHANGED <<exc, outcome>>
    /\ UNCHANGED <<mainFrame, remote, function, stdout>>

\* index.py 29-30: function = upload_and_create_function(client, config)
MainDeploy ==
    /\ pc = "m_deploy"
    /\ log' = Append(log, Call("upload_and_create_function", 0))
    /\ \E d \in DeployOutcomes(remote, cfg.remove_schedules) :
         /\ remote' = d.remote
         /\ IF d.raised
            THEN /\ \E e \in MainErrors("upload_and_create_function") : MainRaise(e)
                 /\ UNCHANGED function
            ELSE /\ function' = Ready
                 /\ pc' = AfterDeploy
                 /\ UNCHANGED <<exc, outcome>>
    /\ UNCHANGED <<mainFrame, stdout>>

\* index.py 31-41: with remove_schedules the schedules are read and attached;
\* without, they are read and, if any, a warning is logged.
MainSchedules ==
    /\ pc = "m_schedules"
    /\ \/ /\ \E e \in { x \in MainErrors("schedules") :
                          cfg.remove_schedules \/ x.site = "config.schedules" } : MainRaise(e)
          /\ log' = Append(log, Call("config.schedules", 0))
          /\ UNCHANGED remote
       \/ /\ \E n \in 0..MaxSchedules :
               /\ remote' = [remote EXCEPT !.scheds = IF cfg.remove_schedules THEN @ + n ELSE @]
               /\ log' = log \o <<Call("config.schedules", 0),
                                  IF cfg.remove_schedules THEN Call("deploy_schedules", n)
                                  ELSE Call("logger.warning", n)>>
          /\ pc' = "m_output"
          /\ UNCHANGED <<exc, outcome>>
    /\ UNCHANGED <<mainFrame, function, stdout>>

\* index.py 43: print(f"::set-output name=function_external_id::{function.external_id}")
MainOutput ==
    /\ pc = "m_output"
    /\ stdout' = Append(stdout, <<"::set-output name=function_external_id::", "external_id">>)
    /\ pc' = "m_done"
    /\ outcome' = [kind |-> "returned", exc |-> NoExc, fn |-> function]
    /\ UNCHANGED <<mainFrame, remote, function, log, exc>>

NextMain ==
    \/ MainStart
    \/ MainDeleteOnly
    \/ MainRunChecks
    \/ MainDeploy
    \/ MainSchedules
    \/ MainOutput

SpecMain == InitMain /\ [][NextMain]_vars

(***************************************************************************)
(* temporary_chdir (utils.py 29-36) as zip_and_upload_folder uses it       *)
(* (function_file.py 60-67): one block for the function folder, one for    *)
(* the parent of the common folder. Paths are sequences of segments; the   *)
(* working directory is absolute, the folders are relative to it.          *)
(***************************************************************************)
Workspace == <<"github", "workspace">>

\* The directories that exist on the runner.
ExistingDirs ==
    { Workspace \o d : d \in { <<>>, <<"fn">>, <<"fn", "sub">>, <<"common">>,
                               <<"shared">>, <<"shared", "common">> } }

\* The folders a configuration may name; <<>> is ".", "gone" does not exist.
Folders == { <<>>, <<"fn">>, <<"fn", "sub">>, <<"common">>, <<"shared", "common">>, <<"gone">> }

\* common_folder is None
NoFolder == <<"<None>">>

\* Path.parent: Path("a/b").parent = Path("a"), Path(".").parent = Path(".")
Parent(path) == IF path = <<>> THEN <<>> ELSE SubSeq(path, 1, Len(path) - 1)

\* The directory a relative path names from the working directory dir.
Resolve(dir, path) == dir \o path

\* The folder block b changes to, and the directory it walks there.
BlockPath(b) == IF b = 1 THEN cfg.function_folder ELSE Parent(cfg.common_folder)
BlockWalk(b) == IF b = 1 THEN <<>> ELSE cfg.common_folder

EnterPc(b) == IF b = 1 THEN "cd1_enter" ELSE "cd2_enter"
BodyPc(b) == IF b = 1 THEN "cd1_body" ELSE "cd2_body"
ExitPc(b) == IF b = 1 THEN "cd1_exit" ELSE "cd2_exit"

\* Mutant: the working directory is restored only when the block ends normally.
Finally_OnlyOnSuccess(saved, current, raising) == IF raising THEN current ELSE saved

\* utils.py 35-36: finally: os.chdir(old_path)
Finally(saved, current, raising) == saved

chdirFrame ==
    <<pipeline, mode, cfg, remote, faulty, flaky, retryVars, locals, harnessVars, dsCache,
      verifyVars, schedVars, configVars, mainVars, post_deploy_cleanup, runs>>

InitChdir ==
    /\ pipeline = "oidc"
    /\ mode = "chdir"
    /\ cfg \in [function_folder : Folders, common_folder : Folders \cup {NoFolder}]
    /\ cwd \in ExistingDirs
    /\ old_path = <<>>
    /\ remote \in {r \in RemoteStates : r.fn = NoFunction /\ r.file = "none" /\ r.scheds = 0
                                        /\ r.ds = "none"}
    /\ faulty = {}
    /\ flaky = FALSE
    /\ pc = "cd1_enter"
    /\ tries = 0
    /\ delay = 0
    /\ attempt = 0
    /\ sleeps = <<>>
    /\ round = 0
    /\ NoVerification
    /\ NoScheduleHandling
    /\ NoConfigHandling
    /\ NoMain
    /\ NoCleanup
    /\ NoRuns
    /\ InitLocals
    /\ after1 = [remote |-> remote, outcome |-> outcome, cwd |-> cwd]

\* utils.py 31-33: old_path = os.getcwd(); os.chdir(path). os.chdir raises when
\* the path is no directory, before the try is entered and with the working
\* directory as it was.
TemporaryChdirEnter(b) ==
    /\ pc = EnterPc(b)
    /\ old_path' = cwd
    /\ log' = Append(log, Call("os.chdir", BlockPath(b)))
    /\ IF Resolve(cwd, BlockPath(b)) \in ExistingDirs
       THEN /\ cwd' = Resolve(cwd, BlockPath(b))
            /\ pc' = BodyPc(b)
            /\ UNCHANGED <<exc, outcome>>
       ELSE LET e == NewExc("FileNotFoundError", BlockPath(b), "os.chdir")
            IN /\ exc' = e
               /\ outcome' = [kind |-> "raised", exc |-> e, fn |-> NoFunction]
               /\ pc' = "cd_done"
               /\ UNCHANGED cwd
    /\ UNCHANGED chdirFrame

\* function_file.py 62, 66-67: the body of the block writes the files below the
\* directory to the zip buffer; a file that cannot be read raises.
TemporaryChdirBody(b) ==
    /\ pc = BodyPc(b)
    /\ log' = Append(log, Call("os.walk", Resolve(cwd, BlockWalk(b))))
    /\ \/ UNCHANGED exc
       \/ exc' = NewExc("PermissionError", BlockWalk(b), "zf.write")
    /\ pc' = ExitPc(b)
    /\ UNCHANGED <<chdirFrame, chdirVars, outcome>>

\* utils.py 35-36: the finally clause, then the exception of the body goes on or
\* zip_and_upload_folder continues (function_file.py 64, 69).
TemporaryChdirExit(b) ==
    /\ pc = ExitPc(b)
    /\ cwd' = Finally(old_path, cwd, exc # NoExc)
    /\ log' = Append(log, Call("os.chdir", old_path))
    /\ IF exc # NoExc
       THEN /\ outcome' = [kind |-> "raised", exc |-> exc, fn |-> NoFunction]
            /\ pc' = "cd_done"
       ELSE IF b = 1 /\ cfg.common_folder # NoFolder
            THEN /\ pc' = EnterPc(2)
                 /\ UNCHANGED outcome
            ELSE /\ pc' = "cd_done"
                 /\ outcome' = [kind |-> "returned", exc |-> NoExc, fn |-> NoFunction]
    /\ UNCHANGED <<chdirFrame, old_path, exc>>

NextChdir ==
    \/ \E b \in {1, 2} : TemporaryChdirEnter(b)
    \/ \E b \in {1, 2} : TemporaryChdirBody(b)
    \/ \E b \in {1, 2} : TemporaryChdirExit(b)

SpecChdir == InitChdir /\ [][NextChdir]_vars

(***************************************************************************)
(* run_cleanup (cleanup.py 12-27): the code file of a deployed function is *)
(* deleted when post_deploy_cleanup is on. External ids are sequences of   *)
(* characters.                                                             *)
(***************************************************************************)
FnExternalIds == { <<"f", "n">>, <<"t", "/", "f", "n">>, <<"a", "/", "b", "/", "c">> }

\* External ids of the functions that may already be deployed in the project.
DeployedIds == FnExternalIds \cup { <<"t", "-", "f", "n">> }

\* utils.py 39-40: function_name.replace("/", "-") + ".zip"
create_zipfile_name(function_name) ==
    [i \in DOMAIN function_name |-> IF function_name[i] = "/" THEN "-" ELSE function_name[i]]
        \o <<".", "z", "i", "p">>

\* Mutant: the except clause catches nothing.
CleanupCaught_Nothing == {}

\* cleanup.py 26: except CogniteAPIError
CleanupCaught == {"CogniteAPIError"}

cleanupFrame ==
    <<pipeline, mode, cfg, faulty, flaky, retryVars, locals, harnessVars, dsCache,
      verifyVars, schedVars, configVars, mainVars, chdirVars, post_deploy_cleanup, runs>>

\* The state a successful deployment leaves: the function is Ready and its code
\* file is uploaded. remote.neighbour is the external id of a function deployed
\* in the same project before, whose code file the service keeps under the
\* name create_zipfile_name gives for that id (orchestrator.py 26-28).
InitCleanup ==
    /\ pipeline = "oidc"
    /\ mode = "cleanup"
    /\ cfg \in ConfigOf("oidc")
    /\ post_deploy_cleanup \in BOOLEAN
    /\ remote \in { [fn |-> r.fn, file |-> r.file, ds |-> r.ds, scheds |-> r.scheds,
                      neighbour |-> y] :
                      r \in {q \in RemoteStates : q.fn = Ready /\ q.file # "none"
                                                   /\ (q.file = "governed") = (q.ds # "none")},
                      y \in DeployedIds }
    /\ faulty \in SUBSET {"files.delete"}
    /\ flaky \in BOOLEAN
    /\ pc = "cl_start"
    /\ tries = 0
    /\ delay = 0
    /\ attempt = 0
    /\ sleeps = <<>>
    /\ round = 0
    /\ NoVerification
    /\ NoScheduleHandling
    /\ NoConfigHandling
    /\ NoMain
    /\ NoChdir
    /\ NoRuns
    /\ log = <<>>
    /\ function \in { [status |-> "Ready", error |-> NoError, external_id |-> x] :
                        x \in FnExternalIds }
    /\ file_meta = "none"
    /\ file_id = 0
    /\ ds = "unset"
    /\ dsCache = "empty"
    /\ t = 0
    /\ exc = NoExc
    /\ outcome = [kind |-> "none", exc |-> NoExc, fn |-> NoFunction]
    /\ after1 = [remote |-> remote, outcome |-> outcome]

\* cleanup.py 13-18: if not fn_config.post_deploy_cleanup: ...; return
RunCleanup ==
    /\ pc = "cl_start"
    /\ IF ~post_deploy_cleanup
       THEN /\ log' = Append(log, Call("logger.info", <<"Skipping post-deployment cleanup!">>))
            /\ pc' = "cl_done"
            /\ outcome' = [kind |-> "returned", exc |-> NoExc, fn |-> NoFunction]
       ELSE /\ log' = Append(log, Call("logger.info", <<"Running post-deployment cleanup!">>))
            /\ pc' = "cl_delete"
            /\ UNCHANGED outcome
    /\ UNCHANGED <<cleanupFrame, remote, exc>>

\* cleanup.py 21-27: _delete_code_file; a caught error is logged, another one
\* leaves run_cleanup.
DeleteCodeFile ==
    /\ pc = "cl_delete"
    /\ LET file_xid == create_zipfile_name(function.external_id)
           issued == Append(log, Call("files.delete", file_xid))
       IN \E failed \in Fails("files.delete") :
            IF ~failed
            THEN /\ remote' = [remote EXCEPT !.file = "none"]
                 /\ log' = Append(issued, Call("logger.info",
                                               <<"- Code file object deleted! (XID: ", file_xid>>))
                 /\ outcome' = [kind |-> "returned", exc |-> NoExc, fn |-> NoFunction]
                 /\ UNCHANGED exc
            ELSE \E e \in ApiError("files.delete") :
                   /\ UNCHANGED remote
                   /\ IF e.type \in CleanupCaught
                      THEN /\ log' = Append(issued, Call("logger.info",
                                       <<"- Unable to delete file object with external ID: ", file_xid>>))
                           /\ outcome' = [kind |-> "returned", exc |-> NoExc, fn |-> NoFunction]
                           /\ UNCHANGED exc
                      ELSE /\ log' = issued
                           /\ exc' = e
                           /\ outcome' = [kind |-> "raised", exc |-> e, fn |-> NoFunction]
    /\ pc' = "cl_done"
    /\ UNCHANGED cleanupFrame

NextCleanup ==
    \/ RunCleanup
    \/ DeleteCodeFile

SpecCleanup == InitCleanup /\ [][NextCleanup]_vars

(***************************************************************************)
(* Two runs of upload_and_create_function (orchestrator.py 16-36) for the  *)
(* same external id, their remote calls interleaved. The service keeps one *)
(* function and one code file under the id; remote.fn and remote.file tell *)
(* who created them: NoOne, a run, or an Earlier deployment.               *)
(***************************************************************************)
Runs == {1, 2}
NoOne == 0
Earlier == 3
Other(r) == 3 - r

NewRun ==
    [pc |-> "retry", tries |-> ORCH_TRIES, file_id |-> NoOne, handle |-> NoOne,
     outcome |-> "none", exc |-> "none", lost |-> FALSE]

runsFrame ==
    <<pipeline, mode, cfg, faulty, flaky, pc, retryVars, locals, harnessVars, dsCache, log,
      exc, outcome, verifyVars, schedVars, configVars, mainVars, chdirVars, post_deploy_cleanup>>

InitRuns ==
    /\ pipeline = "oidc"
    /\ mode = "runs"
    /\ cfg \in {c \in ConfigOf("oidc") : ~c.data_set}
    /\ remote \in [fn : {NoOne, Earlier}, file : {NoOne, Earlier}]
    /\ runs = [r \in Runs |-> NewRun]
    /\ faulty = {}
    /\ flaky = FALSE
    /\ pc = "runs"
    /\ tries = 0
    /\ delay = 0
    /\ attempt = 0
    /\ sleeps = <<>>
    /\ round = 0
    /\ NoVerification
    /\ NoScheduleHandling
    /\ NoConfigHandling
    /\ NoMain
    /\ NoChdir
    /\ NoCleanup
    /\ InitLocals
    /\ after1 = [remote |-> remote, outcome |-> outcome]

\* Run r goes on at pc p.
Goto(r, p) == runs' = [runs EXCEPT ![r].pc = p]

\* Run r ends with an exception of class type: _retry sleeps and runs the
\* function again, or the exception leaves upload_and_create_function.
RunRaise(r, type) ==
    LET d == RetryDecision(type, runs[r].tries)
    IN runs' = [runs EXCEPT
                  ![r].tries = IF d = "propagate" THEN @ ELSE @ - 1,
                  ![r].pc = IF d = "sleep" THEN "retry" ELSE "done",
                  ![r].outcome = IF d = "sleep" THEN @ ELSE "raised",
                  ![r].exc = type,
                  ![r].file_id = NoOne]

\* Mutant: a run's delete leaves alone what the other run created.
Deleted_OwnOnly(r, owner) == IF owner = Other(r) THEN owner ELSE NoOne

\* function.py 92, function_file.py 92: the delete is by external id; nothing
\* tells whose function or file it is.
Deleted(r, owner) == NoOne

\* The other run loses what it created when run r's delete removes it.
Loses(r, before, after) ==
    [runs EXCEPT ![Other(r)].lost = @ \/ (before = Other(r) /\ after = NoOne)]

\* utils.py 96-99: while tries: try: return fn()
RunAttempt(r) ==
    /\ runs[r].pc = "retry"
    /\ Goto(r, "fn_retrieve")
    /\ UNCHANGED <<runsFrame, remote>>

\* function.py 89-90: function = client.functions.retrieve(external_id=external_id)
RunFnRetrieve(r) ==
    /\ runs[r].pc = "fn_retrieve"
    /\ Goto(r, IF remote.fn # NoOne THEN "fn_delete" ELSE "file_retrieve")
    /\ UNCHANGED <<runsFrame, remote>>

\* function.py 92: client.functions.delete(external_id=external_id); the service
\* rejects the delete of a function that is gone by now.
RunFnDelete(r) ==
    /\ runs[r].pc = "fn_delete"
    /\ IF remote.fn # NoOne
       THEN /\ remote' = [remote EXCEPT !.fn = Deleted(r, @)]
            /\ runs' = [Loses(r, remote.fn, Deleted(r, remote.fn)) EXCEPT ![r].pc = "file_retrieve"]
       ELSE /\ RunRaise(r, "CogniteAPIError")
            /\ UNCHANGED remote
    /\ UNCHANGED runsFrame

\* function_file.py 86-88: file_meta := client.files.retrieve(external_id=xid)
RunFileRetrieve(r) ==
    /\ runs[r].pc = "file_retrieve"
    /\ Goto(r, IF remote.file # NoOne THEN "file_delete" ELSE "settle")
    /\ UNCHANGED <<runsFrame, remote>>

\* function_file.py 91-95: client.files.delete(external_id=xid); the file is in no
\* data set, so a rejected delete is re-raised.
RunFileDelete(r) ==
    /\ runs[r].pc = "file_delete"
    /\ IF remote.file # NoOne
       THEN /\ remote' = [remote EXCEPT !.file = Deleted(r, @)]
            /\ runs' = [Loses(r, remote.file, Deleted(r, remote.file)) EXCEPT ![r].pc = "settle"]
       ELSE /\ RunRaise(r, "CogniteAPIError")
            /\ UNCHANGED remote
    /\ UNCHANGED runsFrame

\* orchestrator.py 19: time.sleep(3)
RunSettle(r) ==
    /\ runs[r].pc = "settle"
    /\ Goto(r, "upload")
    /\ UNCHANGED <<runsFrame, remote>>

\* orchestrator.py 28: zip_and_upload_folder; upload_bytes(..., overwrite=True)
RunUpload(r) ==
    /\ runs[r].pc = "upload"
    /\ remote' = [remote EXCEPT !.file = r]
    /\ runs' = [runs EXCEPT ![r].pc = "create", ![r].file_id = r]
    /\ UNCHANGED runsFrame

\* orchestrator.py 29-36: create_function; an external id in use is a
\* FunctionDeployError, a code file that is gone another API error.
RunCreate(r) ==
    /\ runs[r].pc = "create"
    /\ IF remote.fn # NoOne
       THEN /\ RunRaise(r, CreateFunctionError(NewExc("CogniteAPIError", <<DupPhrase>>,
                                                      "create_function:create")).type)
            /\ UNCHANGED remote
       ELSE IF remote.file = NoOne
            THEN /\ RunRaise(r, "CogniteAPIError")
                 /\ UNCHANGED remote
            ELSE /\ remote' = [remote EXCEPT !.fn = r]
                 /\ runs' = [runs EXCEPT
                               ![r].handle = r,
                               ![r].pc = IF cfg.await THEN "await" ELSE "done",
                               ![r].outcome = IF cfg.await THEN @ ELSE "returned"]
    /\ UNCHANGED runsFrame

\* orchestrator.py 31: await_function_deployment (function.py 54-63): the function
\* is looked up by its external id.
RunAwait(r) ==
    /\ runs[r].pc = "await"
    /\ IF remote.fn = NoOne
       THEN RunRaise(r, "FunctionDeployError")
       ELSE runs' = [runs EXCEPT ![r].pc = "done", ![r].outcome = "returned",
                                 ![r].handle = remote.fn]
    /\ UNCHANGED <<runsFrame, remote>>

NextRuns ==
    \/ \E r \in Runs : RunAttempt(r)
    \/ \E r \in Runs : RunFnRetrieve(r)
    \/ \E r \in Runs : RunFnDelete(r)
    \/ \E r \in Runs : RunFileRetrieve(r)
    \/ \E r \in Runs : RunFileDelete(r)
    \/ \E r \in Runs : RunSettle(r)
    \/ \E r \in Runs : RunUpload(r)
    \/ \E r \in Runs : RunCreate(r)
    \/ \E r \in Runs : RunAwait(r)

SpecRuns == InitRuns /\ [][NextRuns]_vars

(***************************************************************************)
(* await_function_deployment (function.py 54-76) on its own: the function  *)
(* has been created, the service moves it through its statuses as it       *)
(* likes, every sleep takes POLL_INTERVAL_SEC.                              *)
(***************************************************************************)
InitAwait ==
    /\ pipeline = "legacy"
    /\ mode = "await"
    /\ cfg \in { c \in Configs : c.await /\ ~c.data_set /\ ~c.remove_schedules }
    /\ remote \in { [fn |-> f, file |-> "plain", scheds |-> 0, ds |-> "none"] :
                      f \in {NoFunction}
                            \cup { [status |-> st, error |-> NoError] :
                                     st \in FnStatuses \ {"Failed"} } }
    /\ faulty = {}
    /\ flaky \in BOOLEAN
    /\ pc = "await_retrieve"
    /\ tries = 1
    /\ delay = 0
    /\ attempt = 1
    /\ sleeps = <<>>
    /\ round = 0
    /\ NoVerification
    /\ NoScheduleHandling
    /\ InitLocals
    /\ ComponentsIdle
    /\ after1 = [remote |-> remote, outcome |-> outcome]

NextAwait ==
    \/ AwaitRetrieve
    \/ Poll

SpecAwait == InitAwait /\ [][NextAwait]_vars

\* The process is not suspended: a step that can be taken is taken.
SpecAwaitFair == SpecAwait /\ WF_vars(NextAwait)

(***************************************************************************)
(* upload_and_create_function of the orchestrator alone (orchestrator.py   *)
(* 22-36): the steps of the deployment that the oidc pipeline takes.       *)
(***************************************************************************)
InitOrch ==
    /\ pipeline = "oidc"
    /\ Init

NextOrch ==
    \/ RetryLoop
    \/ RetryExcept
    \/ RetrySleep
    \/ FnRetrieve
    \/ FnDelete
    \/ FileRetrieve
    \/ FileDelete
    \/ Settle
    \/ Zip
    \/ DsRetrieve
    \/ Upload
    \/ Create
    \/ Poll

SpecOrch == InitOrch /\ [][NextOrch]_vars

(***************************************************************************)
(* utils._retry (utils.py 96-112) on its own, as retry and retry_call      *)
(* (utils.py 115-128) hand it their arguments: any tries >= 0, delay,      *)
(* backoff, jitter and max_delay, around an operation that returns or      *)
(* raises as it likes.                                                     *)
(***************************************************************************)
RetryArguments ==
    [tries : 0..MaxTries, delay : {0, 1, ORCH_DELAY}, backoff : {1, ORCH_BACKOFF},
     jitter : {0, LEGACY_JITTER}, max_delay : {NoMaxDelay, MaxDelayCap}]

InitRetry ==
    /\ pipeline = "call"
    /\ mode = "retry"
    /\ cfg \in RetryArguments
    /\ remote \in { r \in RemoteStates :
                      r.fn = NoFunction /\ r.file = "none" /\ r.ds = "none" /\ r.scheds = 0 }
    /\ faulty = {}
    /\ flaky = TRUE
    /\ pc = "retry"
    /\ tries = RetryTries
    /\ delay = RetryDelay
    /\ attempt = 0
    /\ sleeps = <<>>
    /\ round = 0
    /\ NoVerification
    /\ NoScheduleHandling
    /\ InitLocals
    /\ ComponentsIdle
    /\ after1 = [remote |-> remote, outcome |-> outcome]

\* utils.py 99: fn(), the wrapped operation: it returns its result (here the
\* number of the invocation tells the results apart) or raises an exception that
\* is among `exceptions` or one that is not.
WrappedCall ==
    /\ pc = AttemptEntry
    /\ log' = Append(log, Call("fn", attempt))
    /\ \/ Return([status |-> "Ready", error |-> NoError, call |-> attempt])
       \/ Raise(NewExc("FunctionDeployError", <<"failed">>, "fn"), TRUE)
       \/ Raise(NewExc("CogniteAPIError", <<"Forbidden">>, "fn"), TRUE)
    /\ UNCHANGED <<envVars, remote, retryVars, dsCache, harnessVars>>

NextRetry ==
    \/ RetryLoop
    \/ WrappedCall
    \/ RetryExcept
    \/ RetrySleep

SpecRetry == InitRetry /\ [][NextRetry]_vars

(***************************************************************************)
(* Properties                                                              *)
(***************************************************************************)
Issued(op) == \E i \in DOMAIN log : log[i].op = op
Count(op) == Cardinality({i \in DOMAIN log : log[i].op = op})
Raised == pc = "done" /\ outcome.kind = "raised"
CreateSite == "create_function:create"

\* C1: a remote error of the create call whose message contains "Function
\* externalId duplicated" reaches _retry as a FunctionDeployError, a retried class;
\* while tries remain _retry then sleeps and starts a further attempt from the
\* first step of the sequence, and the error reaches the caller only when the
\* tries are used up.
C1_DuplicateCreateErrorIsRetried ==
    /\ [](pc = "retry_except" /\ exc.origin = CreateSite /\ IsInfix(<<DupPhrase>>, exc.msg)
            => exc.type = "FunctionDeployError" /\ exc.type \in RetriedExceptions)
    /\ [](Raised /\ outcome.exc.origin = CreateSite /\ IsInfix(<<DupPhrase>>, outcome.exc.msg)
            => tries = 0 /\ attempt = RetryTries)
    /\ [][ /\ (pc = "retry_except" /\ exc.origin = CreateSite
                 /\ IsInfix(<<DupPhrase>>, exc.msg) /\ tries > 1
               => pc' = "retry_sleep" /\ tries' = tries - 1)
           /\ (pc = "retry_sleep" => pc' = "retry" /\ tries' = tries)
           /\ (pc = "retry" /\ tries > 0
               => pc' = "fn_retrieve" /\ attempt' = attempt + 1 /\ log' = <<>>) ]_vars

\* C1 witness: a duplicate-external-id error of the create call has been caught by
\* _retry with tries left, which is about to sleep and run the sequence again.
C1_Witness ==
    /\ pc = "retry_sleep"
    /\ exc.origin = CreateSite
    /\ IsInfix(<<DupPhrase>>, exc.msg)
    /\ exc.type = "FunctionDeployError"
    /\ tries >= 1

PermanentErrors == {"CogniteAPIError", "ValueError"}

\* C2: an exception of a class outside the retried set (ValueError, CogniteAPIError)
\* is never slept on by _retry; it reaches the caller from the attempt that raised
\* it, with no try used up for it and each of the delete, upload and create calls
\* issued at most once in that attempt.
C2_PermanentErrorNotRetried ==
    /\ (pc = "retry_sleep" => exc.type \notin PermanentErrors)
    /\ (pc = "retry_except" /\ exc.type \in PermanentErrors => exc.attempt = attempt)
    /\ (Raised /\ outcome.exc.type \in PermanentErrors
          => /\ outcome.exc.attempt = attempt
             /\ attempt = RetryTries - tries + 1
             /\ \A op \in {"functions.delete", "files.delete", "files.upload_bytes",
                           "functions.create"} : Count(op) <= 1)

\* C2 witness: the first attempt's create call failed with a remote error that is not
\* a duplicate-external-id error, and the run ended with it after that one attempt.
C2_Witness ==
    /\ Raised
    /\ outcome.exc.type = "CogniteAPIError"
    /\ outcome.exc.origin = CreateSite
    /\ ~IsInfix(<<DupPhrase>>, outcome.exc.msg)
    /\ attempt = 1

\* C3: when the run ends with an exception of a retried class, every try was used:
\* exactly `tries` attempts were made (2 in orchestrator.py, 5 in function.py) and
\* the exception raised is the object the last attempt raised, its class and text
\* untouched.
C3_ExhaustedRaisesLastOriginal ==
    Raised /\ outcome.exc.type \in {"FunctionDeployError"} \cup
                 (IF pipeline = "legacy" THEN {"OSError", "FunctionDeployTimeout"} ELSE {})
      => /\ attempt = IF pipeline = "oidc" THEN ORCH_TRIES ELSE LEGACY_TRIES
         /\ tries = 0
         /\ outcome.exc = exc
         /\ outcome.exc.attempt = attempt
         /\ Len(sleeps) = attempt - 1

\* C3 witness: orchestrator.py's sequence failed twice with FunctionDeployError and
\* the second attempt's exception is the outcome.
C3_Witness ==
    /\ Raised
    /\ pipeline = "oidc"
    /\ outcome.exc.type = "FunctionDeployError"
    /\ attempt = 2
    /\ outcome.exc.attempt = 2

TimeoutSite == "await_function_deployment:76"

\* A delete of the function issued after the create call of the current attempt.
CancelDeleteIssued ==
    \E i, j \in DOMAIN log :
        i < j /\ log[i].op = "functions.create" /\ log[j].op = "functions.delete"

\* C4: when await_function_deployment raises FunctionDeployTimeout, a delete of the
\* half-created function has been attempted first.
C4_TimeoutCancelsFunction ==
    exc.site = TimeoutSite => CancelDeleteIssued

\* C5: FunctionDeployTimeout is not retried: _retry never sleeps on it, and the
\* attempt that timed out is the first and only one that does.
C5_TimeoutRaisedOnce ==
    /\ (pc = "retry_sleep" => exc.type # "FunctionDeployTimeout")
    /\ (Raised /\ outcome.exc.type = "FunctionDeployTimeout" => outcome.exc.attempt = attempt)

FailedSite == "await_function_deployment:69"

\* C6: a status check that sees Failed raises FunctionDeployError whose text holds
\* the remote error's message and its trace, each piece for piece, and the step
\* that raises it is the end of the polling: no sleep and no refresh follows.
C6_FailedRaisesWithMessageAndTrace ==
    /\ [](exc.site = FailedSite
            => /\ exc.type = "FunctionDeployError"
               /\ remote.fn.status = "Failed"
               /\ remote.fn.error \in RemoteErrors
               /\ IsInfix(remote.fn.error.message, exc.msg)
               /\ IsInfix(remote.fn.error.trace, exc.msg)
               /\ pc # "poll")
    /\ [][pc = "poll" /\ t <= cfg.wait /\ function.status = "Failed"
            => /\ exc'.site = FailedSite
               /\ pc' \in {"except_api", "retry_except"}
               /\ remote' = remote]_vars

\* C6 witness: the poller has raised for a function that failed with message "boom"
\* and trace "t".
C6_Witness ==
    /\ exc.site = FailedSite
    /\ remote.fn.error = [message |-> <<"boom">>, trace |-> <<"t">>]
    /\ IsInfix(<<"boom">>, exc.msg)
    /\ IsInfix(<<"t">>, exc.msg)

\* C7: a status check that sees Ready ends the call in that step: the function is
\* returned with nothing slept, nothing refreshed and no call issued.
C7_ReadyReturnsImmediately ==
    [][pc = "poll" /\ t <= cfg.wait /\ function.status = "Ready"
         => /\ pc' = "done"
            /\ outcome' = [kind |-> "returned", exc |-> NoExc, fn |-> function]
            /\ remote' = remote
            /\ log' = log]_vars

\* C7 witness: a polled function was returned Ready.
C7_Witness ==
    /\ pc = "done"
    /\ outcome.kind = "returned"
    /\ outcome.fn.status = "Ready"
    /\ Issued("functions.create")

\* C8: in a second run of remove_function_with_file right after a first one, a
\* lookup that returns nothing is followed by no delete call and no exception, and
\* the second run ends with the remote state and the outcome (returned, or the same
\* exception raised) of the first.
C8_DeleteIdempotent ==
    /\ [][ /\ (pc = "fn_retrieve" /\ remote.fn.status = "none"
                 /\ "functions.retrieve" \notin faulty
               => pc' = "file_retrieve" /\ log' = Append(log, Call("functions.retrieve", 0))
                  /\ exc' = NoExc /\ remote' = remote)
           /\ (pc = "file_retrieve" /\ remote.file = "none"
                 /\ "files.retrieve" \notin faulty
               => pc' = "settle" /\ log' = Append(log, Call("files.retrieve", 0))
                  /\ exc' = NoExc /\ remote' = remote) ]_vars
    /\ [](round = 2 /\ after1.remote.fn.status = "none" => ~Issued("functions.delete"))
    /\ [](round = 2 /\ after1.remote.file = "none" => ~Issued("files.delete"))
    /\ [](round = 2 /\ pc = "removed"
            => /\ remote = after1.remote
               /\ outcome = after1.outcome)

\* C8 witness: the first run deleted a function and a code file, and the second run
\* is over.
C8_Witness ==
    /\ round = 2
    /\ pc = "removed"
    /\ after1.outcome.kind = "returned"
    /\ remote.fn.status = "none"
    /\ remote.file = "none"
    /\ log = <<Call("functions.retrieve", 0), Call("files.retrieve", 0), Call("sleep", SETTLE_SEC)>>

FileDeleteSite == "delete_function_file:delete"

\* C9: a failed delete of an existing code file is swallowed when the file has a
\* data set id, and the sequence goes on with its next step; without a data set id
\* the error is raised, is not retried, and neither upload nor create is issued in
\* that attempt.
C9_FileDeleteFailure ==
    /\ [](exc.origin = FileDeleteSite
            => /\ exc.type = "CogniteAPIError"
               /\ remote.file = "plain"
               /\ ~Issued("files.upload_bytes")
               /\ ~Issued("functions.create")
               /\ pc \in {"retry_except", "done"})
    /\ [][pc = "file_delete" /\ remote'.file # "none"
            => IF file_meta = "governed"
               THEN exc' = NoExc /\ pc' \in {"settle", "sched_delete"} /\ UNCHANGED outcome
               ELSE exc'.origin = FileDeleteSite /\ pc' = "retry_except"]_vars
    /\ [][pc = "retry_except" /\ exc.origin = FileDeleteSite
            => pc' = "done" /\ outcome'.kind = "raised" /\ outcome'.exc = exc]_vars

\* C9 witness: the delete of a governed code file failed, was swallowed, and the
\* sequence has reached the upload with the old file still there.
C9_Witness ==
    /\ pc = "upload"
    /\ Issued("files.delete")
    /\ remote.file = "governed"
    /\ exc = NoExc

Positions(ops) == {i \in DOMAIN log : log[i].op \in ops}
AllBefore(first, then) == \A i \in Positions(first) : \A j \in Positions(then) : i < j

\* C10: in every attempt the calls come in one order: the function lookup and delete,
\* then the code-file lookup and delete, then the settle sleep of 3 seconds, then the
\* upload, then the create; upload and create are never issued before the settle
\* sleep, and create is issued only with the file id an upload returned.
C10_DeleteSettleUploadCreateOrder ==
    /\ AllBefore({"functions.delete"}, {"files.retrieve", "files.delete"})
    /\ AllBefore({"functions.delete", "files.retrieve", "files.delete"}, {"sleep"})
    /\ AllBefore({"sleep"}, {"files.upload_bytes", "functions.create"})
    /\ AllBefore({"files.upload_bytes"}, {"functions.create"})
    /\ (Issued("files.upload_bytes") \/ Issued("functions.create") \/ pc \in {"upload", "create"}
          => /\ \E i \in DOMAIN log : log[i] = Call("sleep", 3)
             /\ Issued("files.retrieve")
             /\ log[1].op = "functions.retrieve")
    /\ (Issued("functions.create")
          => /\ Issued("files.upload_bytes")
             /\ \A i \in Positions({"functions.create"}) : log[i].arg # 0)
    /\ \A op \in {"sleep", "files.upload_bytes", "functions.create"} : Count(op) <= 1

\* C10 witness: an attempt that deleted both the function and the code file has
\* issued its create call.
C10_Witness ==
    /\ Issued("functions.delete")
    /\ Issued("files.delete")
    /\ Issued("functions.create")
    /\ attempt = 2

\* C11 (as stated): in a second or later attempt nothing an earlier attempt obtained
\* is in use when the upload starts: no file id, no function handle, and the data
\* set, when one is configured, was retrieved by this attempt.
C11_NothingReused ==
    attempt >= 2 /\ pc = "upload"
      => /\ file_id = 0
         /\ function = NoFunction
         /\ (cfg.data_set => Issued("data_sets.retrieve"))

\* C11 (amended): every attempt starts at the first statement with an empty call
\* record and no file id, function handle, file metadata or data set held; a file
\* id only comes from the upload step and a function handle only from the create
\* and polling steps of the running attempt; the upload is only reached through
\* the packaging; a create of a second or later attempt has its own lookups,
\* settle sleep and upload before it. The one result carried over is the data set:
\* under orchestrator.py it is served from retrieve_dataset's cache.
C11_RetryRunsSequenceFromScratch ==
    /\ [](pc \in {"retry", "fn_retrieve"}
            => /\ file_id = 0 /\ function = NoFunction /\ file_meta = "none" /\ ds = "unset"
               /\ (pc = "fn_retrieve" => log = <<>>))
    /\ [](attempt >= 2 /\ Issued("functions.create")
            => /\ log[1].op = "functions.retrieve"
               /\ Issued("files.retrieve")
               /\ Issued("sleep")
               /\ Issued("files.upload_bytes"))
    /\ [](pc = "upload" /\ cfg.data_set /\ ~Issued("data_sets.retrieve")
            => pipeline = "oidc" /\ attempt >= 2 /\ ds = dsCache)
    /\ [][ /\ (pc = "retry" /\ tries > 0 => pc' = "fn_retrieve" /\ log' = <<>>)
           /\ (file_id' # file_id /\ file_id' # 0 => pc = "upload")
           /\ (function' # function /\ function' # NoFunction
                 => pc \in {"create", "await_retrieve", "poll"})
           /\ (pc' \in {"ds_retrieve", "upload"} /\ pc' # pc => pc \in {"zip", "ds_retrieve"})
         ]_vars

\* C11 witness: a second attempt has deleted the function the first one left, has
\* uploaded again and has issued its create.
C11_Witness ==
    /\ attempt = 2
    /\ Issued("functions.delete")
    /\ Issued("files.upload_bytes")
    /\ Issued("functions.create")
    /\ pc = "poll"

\* C12: a FunctionDeployError raised by the poller for a Failed function goes
\* straight to _retry: while tries remain _retry sleeps on it and starts a fresh
\* attempt at the first statement; it reaches the caller only when no tries remain,
\* as the FunctionDeployError the poller raised.
C12_FailedDeploymentRetriedBySequence ==
    /\ [](exc.site = FailedSite => pc \in {"retry_except", "retry_sleep", "retry", "done"})
    /\ [](Raised /\ outcome.exc.site = FailedSite
            => /\ tries = 0
               /\ attempt = RetryTries
               /\ outcome.exc.type = "FunctionDeployError"
               /\ outcome.exc.attempt = attempt)
    /\ [][ /\ (pc = "retry_except" /\ exc.site = FailedSite /\ tries > 1
                 => pc' = "retry_sleep" /\ tries' = tries - 1 /\ exc' = exc)
           /\ (pc = "retry_except" /\ exc.site = FailedSite /\ tries = 1
                 => pc' = "done" /\ tries' = 0 /\ outcome'.exc = exc)
           /\ (pc = "retry_sleep" /\ exc.site = FailedSite => pc' = "retry")
           /\ (pc = "retry" /\ tries > 0
                 => pc' = "fn_retrieve" /\ attempt' = attempt + 1 /\ log' = <<>>) ]_vars

\* C12 witness: the poller raised for a Failed function in the first attempt, _retry
\* has slept on it and is about to start the second attempt.
C12_Witness ==
    /\ pc = "retry"
    /\ exc.site = FailedSite
    /\ attempt = 1
    /\ tries >= 1
    /\ Len(sleeps) = 1

\* The capabilities were read from the groups: inspection and listing both answered.
CapabilitiesRead == iam.inspect = "both" /\ iam.groups_ok

\* The groups of the credentials' own project.
OwnGroups == iam.groups[creds.project]

Listed(piece1, piece2) == \E i \in DOMAIN missing : IsInfix(<<piece1, piece2>>, missing[i])

\* The actions each verifier requires, by domain.
RequiredActions ==
    IF creds.cred_name = "deploy"
    THEN { <<"functionsAcl", "READ">>, <<"functionsAcl", "WRITE">>,
           <<"filesAcl", "READ">>, <<"filesAcl", "WRITE">> }
         \cup (IF creds.ds_id # 0 THEN { <<"datasetsAcl", "READ">> } ELSE {})
    ELSE { <<"functionsAcl", "WRITE">>, <<"sessionsAcl", "CREATE">> }

AclPiece(acl) ==
    CASE acl = "functionsAcl" -> "functionsAcl:"
      [] acl = "sessionsAcl"  -> "sessionsAcl:"
      [] acl = "filesAcl"     -> "filesAcl:"
      [] OTHER                -> "datasetsAcl:"

C14_OwnerRequiredIffWriteProtected ==
    /\ (creds.cred_name = "deploy" /\ creds.ds_id # 0 /\ pc \in {"v_end", "v_done"}
          /\ dsCache # "empty"
        => /\ \E c \in OwnGroups : /\ c.acl = "datasetsAcl" /\ "READ" \in c.actions
                                   /\ (c.scope.all \/ creds.ds_id \in c.scope.idScope)
           /\ Listed("datasetsAcl:", "OWNER")
                <=> /\ remote.ds = "protected"
                    /\ ~\E c \in OwnGroups : /\ c.acl = "datasetsAcl" /\ "OWNER" \in c.actions
                                             /\ (c.scope.all \/ creds.ds_id \in c.scope.idScope))
    /\ ~Listed("datasetsAcl:", "WRITE")
    /\ (pc = "v_dataset"
          => \E c \in OwnGroups : /\ c.acl = "datasetsAcl" /\ "READ" \in c.actions
                                  /\ (c.scope.all \/ creds.ds_id \in c.scope.idScope))

\* C14 witness: the data set was retrieved, is write-protected, and OWNER was
\* reported missing in the error raised.
C14_Witness ==
    /\ pc = "v_done"
    /\ remote.ds = "protected"
    /\ dsCache = "protected"
    /\ Listed("datasetsAcl:", "OWNER")
    /\ outcome.exc.type = "MissingAclError"

C16_EmptyScopeGrantsNothing ==
    CapabilitiesRead /\ pc = "v_end"
      => \A ra \in RequiredActions :
           (\A c \in OwnGroups : c.acl = ra[1] /\ ra[2] \in c.actions => c.scope = NoScope)
             => Listed(AclPiece(ra[1]), ra[2])

\* C17: the verifiers only read: every call they issue is a token inspection, a
\* group listing or a data set retrieval, and no step changes the remote state.
C17_VerificationOnlyReads ==
    /\ [](\A i \in DOMAIN log :
            log[i].op \in {"iam.token.inspect", "iam.groups.list", "data_sets.retrieve"})
    /\ [][remote' = remote /\ iam' = iam]_vars

\* C17 witness: a deploy verification with a data set has made all three kinds of
\* call and passed.
C17_Witness ==
    /\ pc = "v_done"
    /\ outcome.kind = "returned"
    /\ Issued("iam.token.inspect")
    /\ Issued("iam.groups.list")
    /\ Issued("data_sets.retrieve")


\* The create calls deploy_schedules owes for the parsed schedules, in list order.
ExpectedCreates ==
    [i \in 1..Len(schedules) |->
        [op |-> "schedules.create",
         arg |-> [function_id |-> senv.fn_id, client_credentials |-> senv.credentials,
                  name |-> schedules[i].name,
                  cron_expression |-> schedules[i].cron_expression]]]

\* C18: deploy_schedules makes no remote call when the list is empty; otherwise
\* the calls it has made are, at every moment, the first create calls owed for
\* the list in list order, each with the function's numeric id and the schedule
\* credentials, all of them once it returns; it makes no other kind of call and
\* the schedules that existed before are all still there.
C18_OneCreatePerScheduleInOrder ==
    pipeline = "oidc" =>
      /\ \A i \in DOMAIN log : log[i].op = "schedules.create"
      /\ Len(log) <= Len(schedules)
      /\ log = SubSeq(ExpectedCreates, 1, Len(log))
      /\ (schedules = <<>> => log = <<>>)
      /\ (pc = "s_done" /\ outcome.kind = "returned" => log = ExpectedCreates)
      /\ remote.scheds = after1.remote.scheds + Len(log)
                         - (IF outcome.kind = "raised" /\ outcome.exc.site = "deploy_schedules:create"
                            THEN 1 ELSE 0)
      /\ remote.fn = after1.remote.fn
      /\ remote.file = after1.remote.file

\* C18 witness: two different schedules were attached, in order, to a function
\* that already had a schedule, and deploy_schedules returned.
C18_Witness ==
    /\ pipeline = "oidc"
    /\ pc = "s_done"
    /\ outcome.kind = "returned"
    /\ Len(log) = 2
    /\ log[1].arg.name = <<"hourly">>
    /\ log[2].arg.name = <<"daily">>
    /\ after1.remote.scheds = 1
    /\ remote.scheds = 3

\* The schedule file has been read and parsed into the list.
SchedulesParsed == pc \in {"s_deploy", "s_create", "s_done"} /\ schedules # <<>>

\* C19: the name of every parsed schedule starts with the function's external
\* id, and the same declared schedule under another external id gets another name.
C19_NamesScopedByExternalId ==
    SchedulesParsed =>
      \A i \in DOMAIN schedules :
        /\ SubSeq(schedules[i].name, 1, Len(senv.xid)) = senv.xid
        /\ \A x \in ExternalIds \ {senv.xid} :
             ParsedName(pipeline, x, senv.disk.items[i], i - 1) # schedules[i].name

\* The file was given and yields no schedule list: it is missing, empty, not
\* YAML, or holds an object that does not validate.
Unreadable(disk) ==
    \/ disk.kind \in {"missing", "empty", "unparseable"}
    \/ disk.kind = "sequence" /\ \E i \in DOMAIN disk.items : ~Parses(pipeline, disk.items[i])

\* C20: once the schedule file has been handled, a file that is missing, empty
\* or fails to parse has raised nothing, the schedule list is empty, schedule_file
\* is cleared and a warning was logged.
C20_UnreadableFileMeansNoSchedules ==
    pc # "s_validate" /\ Unreadable(senv.disk)
      => /\ outcome.kind # "raised"
         /\ schedules = <<>>
         /\ schedule_file = "none"
         /\ warnings # <<>>


\* The names the claim lists as accepted.
AcceptedExamples ==
    { <<"b", "a", "z", ".", "p", "y">>,
      <<"h", "o", "m", "e", "/", "u", "s", "e", "r", "0", "/", "b", "a", "z", ".", "p", "y">>,
      <<"h", "o", "m", "e", "/", "u", "s", "e", "r", "_", "f", "o", "o", "/",
        "b", "a", "r", "-", "b", "a", "z", ".", "p", "y">>,
      <<"f", "o", "o", "/", "m", "a", "-", "i", "n", ".", "p", "y">>,
      <<"f", "o", "o", "/", "b", "a", "r", "/", "b", "a", "z", "/",
        "m", "a", "i", "n", "8", ".", "p", "y">> }

\* C21: each of the listed relative paths, with or without sub-folders, passes
\* the validation and is the function_file of the configuration, unchanged.
C21_SubfolderPathsAccepted ==
    pc # "c_parse" /\ envvars.function_file \in AcceptedExamples
      => /\ outcome.kind # "raised"
         /\ fn_config.function_file = envvars.function_file

\* The path segments of a name, split at the forward slashes.
RECURSIVE Segments(_)
Segments(x) ==
    IF \A i \in DOMAIN x : x[i] # "/"
    THEN <<x>>
    ELSE LET i == CHOOSE j \in DOMAIN x : x[j] = "/" /\ \A l \in 1..(j - 1) : x[l] # "/"
         IN <<SubSeq(x, 1, i - 1)>> \o Segments(SubSeq(x, i + 1, Len(x)))

EndsWith(x, suffix) ==
    Len(x) >= Len(suffix) /\ SubSeq(x, Len(x) - Len(suffix) + 1, Len(x)) = suffix

\* The names the claim wants rejected.
BadName(x) ==
    \/ x = <<>>
    \/ Head(x) = "/"
    \/ \E i \in DOMAIN x : x[i] = "\\"
    \/ \E i \in DOMAIN Segments(x) : Segments(x)[i] \in { <<>>, <<".", ".">> }
    \/ ~(EndsWith(x, <<".", "p", "y">>) \/ EndsWith(x, <<".", "j", "s">>))

\* C22: the function_file of an accepted configuration never starts with '/',
\* holds a backslash, has an empty or '..' path segment or lacks the .py or .js
\* ending; a name of that kind (taken without the whitespace around it, which the
\* parser strips) fails the validation.
C22_BadNamesNeverAccepted ==
    /\ (pc # "c_parse" /\ outcome.kind # "raised" => ~BadName(fn_config.function_file))
    /\ (pc # "c_parse" /\ Strip(envvars.function_file) # <<>>
          /\ BadName(Strip(envvars.function_file))
        => /\ outcome.kind = "raised"
           /\ outcome.exc.type = "ValidationError"
           /\ fn_config = NoConfig
           /\ fn_params = NoParams)

\* C22 witness: a name with a backslash that otherwise looks like an entry file
\* was given and the validation failed.
C22_Witness ==
    /\ pc = "c_done"
    /\ envvars.function_file
         = <<"f", "o", "o", "\\", "h", "a", "n", "d", "l", "e", "r", ".", "p", "y">>
    /\ outcome.kind = "raised"
    /\ outcome.exc.type = "ValidationError"

\* A metadata map with a key above 32 or a value above 500 characters.
MetadataTooLong(m) ==
    \E k \in DOMAIN m : Len(k) > NonEmptyStringMax32 \/ Len(m[k]) > NonEmptyStringMax500

\* C23: a metadata map with a key above 32 or a value above 500 characters fails
\* the validation; a map within the limits is accepted and create_fn_params
\* returns it unchanged under the key 'metadata'.
C23_MetadataBoundedAndPassedOn ==
    pc = "c_done" /\ DOMAIN envvars.metadata # {}
      => IF MetadataTooLong(envvars.metadata)
         THEN outcome.kind = "raised"
         ELSE /\ outcome.kind = "returned"
              /\ "metadata" \in DOMAIN fn_params
              /\ fn_params["metadata"] = envvars.metadata


\* C24: with remove_only set, main creates the client and calls the delete of
\* the function with remove_schedules = True, and nothing else: no entry-point
\* check, no deployment, no schedule step, no output. When the delete returns
\* the function and its schedules are gone and the code file is gone (or is a
\* governed file whose failed delete was swallowed), and main has returned.
C24_DeleteOnlyBranchStops ==
    (mode = "main" /\ remove_only) =>
        /\ \A i \in DOMAIN log :
             /\ log[i].op \in {"create_experimental_cognite_client",
                               "delete_single_cognite_function"}
             /\ (log[i].op = "delete_single_cognite_function"
                   => log[i].arg = "remove_schedules=True")
        /\ Count("delete_single_cognite_function") <= 1
        /\ stdout = <<>>
        /\ pc \in {"m_start", "m_delete", "m_done"}
        /\ ((Issued("delete_single_cognite_function") /\ exc = NoExc) =>
              /\ pc = "m_done"
              /\ outcome.kind = "returned"
              /\ remote.fn = NoFunction
              /\ remote.scheds = 0
              /\ remote.file \in {"none", "governed"})

C24_Witness ==
    /\ mode = "main"
    /\ remove_only
    /\ pc = "m_done"
    /\ outcome.kind = "returned"
    /\ after1.remote.fn # NoFunction
    /\ after1.remote.scheds > 0
    /\ after1.remote.file = "plain"
    /\ remote.fn = NoFunction
    /\ remote.scheds = 0
    /\ remote.file = "none"

\* C25: the output line function_external_id is printed at most once, and only
\* when main succeeded: not in the delete-only branch, after
\* upload_and_create_function has returned the function and after the schedule
\* step has finished, with no exception raised. A run that ends with an
\* exception has printed nothing.
C25_OutputOnceAndOnlyOnSuccess ==
    mode = "main" =>
        /\ Len(stdout) <= 1
        /\ (stdout # <<>> =>
              /\ ~remove_only
              /\ Count("upload_and_create_function") = 1
              /\ function = Ready
              /\ (IF cfg.remove_schedules THEN Issued("deploy_schedules")
                  ELSE Issued("logger.warning"))
              /\ exc = NoExc
              /\ pc = "m_done"
              /\ outcome.kind = "returned")
        /\ (outcome.kind = "raised" => stdout = <<>>)

C25_Witness ==
    /\ mode = "main"
    /\ pc = "m_done"
    /\ stdout = << <<"::set-output name=function_external_id::", "external_id">> >>
    /\ Issued("deploy_schedules")
    /\ remote.fn = Ready


\* C26: temporary_chdir restores the working directory. Outside the two
\* with-blocks of zip_and_upload_folder (before a block, between the blocks,
\* after them, whether the body ended normally or with an exception, and when
\* entering failed because the folder does not exist) the working directory is
\* the one the run started in; inside a block it is the folder of that block,
\* resolved from the starting directory.
C26_WorkingDirectoryRestored ==
    mode = "chdir" =>
        /\ (pc \in {"cd1_enter", "cd2_enter", "cd_done"} => cwd = after1.cwd)
        /\ \A b \in {1, 2} :
             pc \in {BodyPc(b), ExitPc(b)} =>
                /\ old_path = after1.cwd
                /\ cwd = Resolve(after1.cwd, BlockPath(b))

\* The body of the second block raised inside another directory and the
\* working directory is back where it was.
C26_Witness ==
    /\ mode = "chdir"
    /\ pc = "cd_done"
    /\ outcome.kind = "raised"
    /\ exc.type = "PermissionError"
    /\ Count("os.walk") = 2
    /\ Parent(cfg.common_folder) # <<>>
    /\ cfg.function_folder # <<>>
    /\ cwd = after1.cwd


\* C27: run_cleanup is best-effort. The delete of the code file is issued only
\* when post_deploy_cleanup is on, at most once and for the zip file name of the
\* function; with the flag off nothing remote changes. An API error of the
\* delete is logged and swallowed: run_cleanup never ends with an exception,
\* and a finished call whose delete did not remove the file has logged that it
\* was unable to delete it.
C27_CleanupIsBestEffort ==
    mode = "cleanup" =>
        /\ (Issued("files.delete") => post_deploy_cleanup)
        /\ Count("files.delete") <= 1
        /\ \A i \in DOMAIN log :
             log[i].op = "files.delete" => log[i].arg = create_zipfile_name(function.external_id)
        /\ (~post_deploy_cleanup => remote = after1.remote)
        /\ exc = NoExc
        /\ outcome.kind # "raised"
        /\ (pc = "cl_done" =>
              /\ outcome.kind = "returned"
              /\ (post_deploy_cleanup => Issued("files.delete"))
              /\ ((post_deploy_cleanup /\ remote.file # "none") =>
                    \E i \in DOMAIN log :
                       /\ log[i].op = "logger.info"
                       /\ log[i].arg[1] = "- Unable to delete file object with external ID: "))

\* The delete was rejected, the file is still there and run_cleanup returned.
C27_Witness ==
    /\ mode = "cleanup"
    /\ pc = "cl_done"
    /\ post_deploy_cleanup
    /\ Issued("files.delete")
    /\ remote.file = "governed"
    /\ outcome.kind = "returned"
    /\ function.external_id = <<"t", "/", "f", "n">>


\* C28: function creation has its own inner retry. When the create call was
\* rejected with a transient error (503) and the deployment gives that error
\* up, the create call has been issued more than once within the attempt, with
\* a delay slept between the creations, while the function delete and the
\* upload were issued no more than once.
C28_CreationRetriedAlone ==
    (mode = "deploy" /\ pipeline = "legacy" /\ pc = "done" /\ outcome.kind = "raised"
       /\ outcome.exc.msg = <<"503 Service Unavailable">>) =>
        /\ Count("functions.create") >= 2
        /\ Count("files.upload_bytes") = 1
        /\ Count("functions.delete") <= 1
        /\ \E i, j, k \in DOMAIN log :
             /\ i < j /\ j < k
             /\ log[i].op = "functions.create"
             /\ log[j].op = "sleep"
             /\ log[k].op = "functions.create"


\* C29: the upload is confirmed before the function is created. Every create
\* call of an attempt comes after the upload of that attempt and at least one,
\* at most 12, lookups of the uploaded file between the two (the polls of its
\* 'uploaded' flag).
C29_UploadConfirmedBeforeCreate ==
    mode = "deploy" =>
        \A k \in Positions({"functions.create"}) :
          \E i \in Positions({"files.upload_bytes"}) :
            /\ i < k
            /\ LET polls == { j \in Positions({"files.retrieve"}) : i < j /\ j < k }
               IN Cardinality(polls) \in 1..12


\* C30: there is no mutual exclusion between runs for the same external id.
\* A delete step of a run that succeeds leaves no function (no code file) under
\* the id, whoever created it, the other run included; and a run that returned
\* the function it created itself while that function is no longer the one
\* under the id has lost it to a delete of the other run.
C30_NoMutualExclusionBetweenRuns ==
    /\ [][\A r \in Runs :
            /\ (runs[r].pc = "fn_delete" /\ runs'[r].pc = "file_retrieve"
                  => remote'.fn = NoOne)
            /\ (runs[r].pc = "file_delete" /\ runs'[r].pc = "settle"
                  => remote'.file = NoOne)]_vars
    /\ [](mode = "runs" =>
            \A r \in Runs :
              (runs[r].outcome = "returned" /\ runs[r].handle = r /\ remote.fn # r)
                 => runs[r].lost)

\* Run 1 has created its function and returned it; the delete step of run 2
\* has removed it since, so run 1 has reported a function that no longer
\* exists.
C30_Witness ==
    /\ mode = "runs"
    /\ runs[1].pc = "done"
    /\ runs[1].outcome = "returned"
    /\ runs[1].handle = 1
    /\ runs[1].lost
    /\ remote.fn = NoOne
    /\ runs[2].pc = "file_retrieve"
    /\ runs[2].outcome = "none"


\* C31: from_envvars treats a parameter that is not set or blank as not given.
\* With neither function_external_id nor function_folder given the validation
\* fails, naming both as missing. With both given (the folder a directory) and
\* no function_file given the configuration is accepted, keeps the two values
\* (without the blanks around them) and function_file is 'handler.py'.
C31_BlankParametersAreNotGiven ==
    (mode = "config" /\ pc # "c_parse") =>
        LET blank(f) == \A i \in DOMAIN envvars[f] : envvars[f][i] \in Whitespace
        IN /\ (blank("function_external_id") /\ blank("function_folder")) =>
                /\ outcome.kind = "raised"
                /\ outcome.exc.type = "ValidationError"
                /\ Len(outcome.exc.msg) >= 2
                /\ \A i \in 1..2 : outcome.exc.msg[i] = RequiredFields[i]
           /\ (~blank("function_external_id") /\ Strip(envvars.function_folder) \in ConfigDirs
                 /\ blank("function_file")) =>
                /\ outcome.kind # "raised"
                /\ fn_config.function_external_id = Strip(envvars.function_external_id)
                /\ fn_config.function_folder = Strip(envvars.function_folder)
                /\ fn_config.function_file
                     = <<"h", "a", "n", "d", "l", "e", "r", ".", "p", "y">>

\* Only a blank function_file and the two required parameters were passed, the
\* external id with blanks around it; the configuration was accepted.
C31_Witness ==
    /\ mode = "config"
    /\ pc = "c_done"
    /\ envvars.function_file = <<" ">>
    /\ envvars.function_external_id = <<" ", "f", "n", " ">>
    /\ envvars.function_folder = <<"s", "r", "c">>
    /\ outcome.kind = "returned"
    /\ fn_config.function_external_id = <<"f", "n">>
    /\ fn_params["function_path"] = DEFAULT_FUNCTION_FILE


\* C32: a Ready status observed by a refresh inside the polling loop leads to a
\* successful return. When the loop is at its head with the status Ready that
\* the refresh after a sleep has shown, the next step returns that function,
\* whatever time the sleep has used up; no FunctionDeployTimeout is raised for
\* a function that was seen Ready.
C32_RefreshedReadyIsReturned ==
    [][(mode = "deploy" /\ pc = "poll" /\ t > 0 /\ function.status = "Ready")
          => /\ pc' = "done"
             /\ outcome'.kind = "returned"
             /\ outcome'.fn.status = "Ready"]_vars


\* C33: await_function_deployment terminates. With every sleep taking the poll
\* interval of 5 seconds, the loop head is reached after whole intervals only,
\* at most floor(timeout/5)+1 status checks are made (one per interval begun
\* within the budget), after the last of them the loop is left, and every call
\* ends: it returns or raises.
C33_AwaitTerminatesWithinBudget ==
    /\ [](mode = "await" /\ pc = "poll" =>
            /\ t % POLL_INTERVAL_SEC = 0
            /\ t \div POLL_INTERVAL_SEC <= cfg.wait \div POLL_INTERVAL_SEC + 1)
    /\ [][(mode = "await" /\ pc = "poll"
             /\ t \div POLL_INTERVAL_SEC = cfg.wait \div POLL_INTERVAL_SEC + 1)
            => pc' # "poll"]_vars
    /\ (mode = "await" => <>(pc \notin {"await_retrieve", "poll"}))

\* The status never became terminal: floor(12/5)+1 = 3 checks were made and
\* the loop head is reached for the last time.
C33_Witness ==
    /\ mode = "await"
    /\ pc = "poll"
    /\ cfg.wait = MaxDeployTimeout
    /\ t \div POLL_INTERVAL_SEC = cfg.wait \div POLL_INTERVAL_SEC + 1
    /\ function.status \in {"Queued", "Deploying"}


\* C34: with await_deployment_success on, upload_and_create_function returns a
\* function only from a status check that saw it Ready: the returning step is
\* a pass of the polling loop with the status Ready, and the function returned
\* is Ready. With it off, the returning step is the create call itself and the
\* function is returned as created, no status check made.
C34_ReturnsReadyWhenAwaiting ==
    /\ [](mode = "deploy" /\ pipeline = "oidc" /\ outcome.kind = "returned" =>
            IF cfg.await THEN outcome.fn.status = "Ready" ELSE outcome.fn = Created)
    /\ [][(mode = "deploy" /\ pipeline = "oidc" /\ outcome.kind # "returned"
             /\ outcome'.kind = "returned") =>
            IF cfg.await
            THEN pc = "poll" /\ function.status = "Ready" /\ outcome'.fn = function
            ELSE pc = "create" /\ t = 0]_vars

\* The second attempt of a run that awaits the deployment has returned the
\* function, Ready.
C34_Witness ==
    /\ mode = "deploy"
    /\ pipeline = "oidc"
    /\ cfg.await
    /\ cfg.wait = MaxDeployTimeout
    /\ pc = "done"
    /\ outcome.kind = "returned"
    /\ outcome.fn.status = "Ready"
    /\ remote.fn.status = "Ready"
    /\ attempt = 2


\* C35: for tries = n >= 0, _retry invokes the wrapped operation at most n
\* times. When it returns the result of an invocation, that invocation is the
\* last one made (none follows a return) and every invocation before it
\* raised. For tries = 0 the operation is never invoked and _retry returns
\* None without raising.
C35_AtMostTriesInvocations ==
    mode = "retry" =>
        /\ attempt <= cfg.tries
        /\ Count("fn") <= 1
        /\ (pc = "done" /\ outcome.kind = "returned" /\ cfg.tries > 0 =>
              /\ outcome.fn # NoFunction
              /\ outcome.fn.call = attempt
              /\ Len(sleeps) = attempt - 1)
        /\ (cfg.tries = 0 =>
              /\ attempt = 0
              /\ ~Issued("fn")
              /\ outcome.kind # "raised"
              /\ (pc = "done" => outcome.kind = "returned" /\ outcome.fn = NoFunction))

\* Two invocations raised, the third returned, and its result is what _retry
\* returned.
C35_Witness ==
    /\ mode = "retry"
    /\ cfg.tries = 3
    /\ pc = "done"
    /\ outcome.kind = "returned"
    /\ outcome.fn # NoFunction
    /\ outcome.fn.call = 3

\* The delays _retry is to sleep: d_1 = delay, d_(k+1) = min(d_k * backoff +
\* jitter, max_delay), no cap without max_delay.
RECURSIVE ExpectedDelay(_)
ExpectedDelay(k) ==
    IF k = 1 THEN cfg.delay
    ELSE LET n == ExpectedDelay(k - 1) * cfg.backoff + cfg.jitter
         IN IF cfg.max_delay # NoMaxDelay /\ n > cfg.max_delay THEN cfg.max_delay ELSE n

\* C36: _retry sleeps exactly once between two consecutive attempts and never
\* after the last one: during and after the k-th attempt k-1 sleeps have been
\* made, and the k-th sleep lasts d_k. With the orchestrator's arguments
\* (tries=2, delay=5, backoff=2, no jitter, no max_delay) a run whose attempts
\* fail sleeps exactly once, for 5 seconds.
C36_SleepsBetweenAttempts ==
    mode = "retry" =>
        /\ \A k \in DOMAIN sleeps : sleeps[k] = ExpectedDelay(k)
        /\ (pc \notin {"retry", "retry_sleep"} /\ attempt > 0 => Len(sleeps) = attempt - 1)
        /\ (pc = "retry" => Len(sleeps) = attempt)
        /\ (pc = "retry_sleep" => Len(sleeps) = attempt - 1 /\ tries > 0)
        /\ ((cfg = [tries |-> ORCH_TRIES, delay |-> ORCH_DELAY, backoff |-> ORCH_BACKOFF,
                    jitter |-> ORCH_JITTER, max_delay |-> NoMaxDelay]
               /\ pc = "done" /\ outcome.kind = "raised"
               /\ outcome.exc.type = "FunctionDeployError")
              => sleeps = <<ORCH_DELAY>>)

\* Three attempts failed; the first sleep lasted the delay given, and the second,
\* grown by backoff and jitter, was cut to max_delay.
C36_Witness ==
    /\ mode = "retry"
    /\ cfg = [tries |-> 3, delay |-> ORCH_DELAY, backoff |-> 2, jitter |-> 2,
              max_delay |-> MaxDelayCap]
    /\ pc = "done"
    /\ outcome.kind = "raised"
    /\ outcome.exc.type = "FunctionDeployError"
    /\ sleeps = <<ORCH_DELAY, MaxDelayCap>>


\* The MissingAclError raised names the item.
Reported(item) ==
    /\ outcome.kind = "raised"
    /\ outcome.exc.type = "MissingAclError"
    /\ IsInfix(item, outcome.exc.msg)

\* The baseline check of the credentials found something missing.
BaselineFails == iam.inspect # "both"

\* C37: when the baseline check reports anything, the verifier raises a
\* MissingAclError whose items are baseline items and the notice only, no
\* function, session, file or data set check is evaluated (none of their items
\* is listed, no data set is retrieved), and the capabilities of the groups are
\* never read: the only calls are those of the baseline check itself.
C37_BaselineGatesTheRest ==
    mode = "verify" /\ BaselineFails /\ pc # "v_basics" =>
        /\ pc \in {"v_end", "v_done"}
        /\ capabs = {}
        /\ missing # <<>>
        /\ \A i \in DOMAIN missing :
             missing[i] \in {ACL_PROJECT_LIST, ACL_GROUPS_LIST, MISSING_ACLS_WARNING}
        /\ missing[Len(missing)] = MISSING_ACLS_WARNING
        /\ \A acl \in {"functionsAcl:", "sessionsAcl:", "filesAcl:", "datasetsAcl:"} :
             /\ ~\E i \in DOMAIN missing : IsInfix(<<acl>>, missing[i])
             /\ ~IsInfix(<<acl>>, outcome.exc.msg)
        /\ ~Issued("data_sets.retrieve")
        /\ Count("iam.token.inspect") = 1
        /\ Count("iam.groups.list") = (IF iam.inspect = "error" THEN 0 ELSE 1)
        /\ (pc = "v_done" =>
              /\ outcome.kind = "raised"
              /\ outcome.exc.type = "MissingAclError"
              /\ outcome.exc.msg = MissingAclMsg(missing, creds.cred_name)
              /\ Reported(MISSING_ACLS_WARNING))

\* The groups of the credentials hold every capability, yet the baseline check
\* found projects:LIST missing, and the verifier raised on that alone.
C37_Witness ==
    /\ mode = "verify"
    /\ pc = "v_done"
    /\ iam.inspect = "capabilities"
    /\ iam.groups_ok
    /\ OwnGroups = FullGrant
    /\ Reported(ACL_PROJECT_LIST)
    /\ capabs = {}

\* C38: a failing token inspection reports both projects:LIST and groups:LIST;
\* an inspection that shows projects and capabilities reports neither (the
\* verifier goes on to read the capabilities); otherwise exactly one is
\* reported: groups:LIST if and only if listing the groups fails, projects:LIST
\* if and only if it succeeds.
C38_BaselineClassification ==
    mode = "verify" =>
        /\ (pc = "v_done" =>
              CASE iam.inspect = "error" ->
                     Reported(ACL_PROJECT_LIST) /\ Reported(ACL_GROUPS_LIST)
                [] iam.inspect = "both" ->
                     ~Reported(ACL_PROJECT_LIST) /\ ~Reported(ACL_GROUPS_LIST)
                [] OTHER ->
                     /\ Reported(ACL_GROUPS_LIST) <=> ~iam.groups_ok
                     /\ Reported(ACL_PROJECT_LIST) <=> iam.groups_ok)
        /\ (pc \in {"v_groups", "v_missing", "v_dataset"} => iam.inspect = "both")
        /\ (pc = "v_groups" => missing = <<>>)

\* The inspection showed projects but no capabilities, the groups could not be
\* listed, and groups:LIST alone was reported.
C38_Witness ==
    /\ mode = "verify"
    /\ pc = "v_done"
    /\ iam.inspect = "projects"
    /\ ~iam.groups_ok
    /\ Reported(ACL_GROUPS_LIST)
    /\ ~Reported(ACL_PROJECT_LIST)

\* Some capability of the domain grants the action, for all resources or, when
\* an id is given, in a data set scope naming that id.
FilesGranted(action, ds_id) ==
    \E c \in capabs :
        /\ c.acl = "filesAcl"
        /\ action \in c.actions
        /\ (c.scope.all \/ (ds_id # 0 /\ ds_id \in c.scope.datasetScope))

DatasetsReadGranted(ds_id) ==
    \E c \in capabs :
        /\ c.acl = "datasetsAcl"
        /\ "READ" \in c.actions
        /\ (c.scope.all \/ ds_id \in c.scope.idScope)

\* C39: once the deploy verifier has computed its list, files READ and files
\* WRITE are each listed exactly when no filesAcl capability grants the action
\* for all resources or, with a data set id, in a data set scope of exactly that
\* id (without an id data set scopes do not count); the grants add up across
\* capabilities. When datasets READ is not granted for the id the data set is
\* not retrieved.
C39_FilesScopeSensitive ==
    mode = "verify" /\ creds.cred_name = "deploy" /\ CapabilitiesRead
      /\ pc \in {"v_dataset", "v_end", "v_done"} =>
        /\ \A a \in {"READ", "WRITE"} :
             Listed("filesAcl:", a) <=> ~FilesGranted(a, creds.ds_id)
        /\ (creds.ds_id # 0 /\ ~DatasetsReadGranted(creds.ds_id) =>
              /\ pc # "v_dataset"
              /\ ~Issued("data_sets.retrieve")
              /\ dsCache = "empty"
              /\ Listed("datasetsAcl:", "READ"))
        /\ (creds.ds_id = 0 => ~Issued("data_sets.retrieve"))

\* With data set 1: files READ is granted for all resources by one capability
\* and files WRITE in the scope of data set 1 by another; neither is listed.
C39_Witness ==
    /\ mode = "verify"
    /\ pc = "v_done"
    /\ creds.ds_id = 1
    /\ Capability("filesAcl", {"READ"}, AllScope) \in capabs
    /\ Capability("filesAcl", {"WRITE"}, DatasetScope({1})) \in capabs
    /\ ~Listed("filesAcl:", "READ")
    /\ ~Listed("filesAcl:", "WRITE")


====
